---------------------------- MODULE Spec2Model ----------------------------
(***************************************************************************)
(* Model of the orchestration and state layer of gmail-automation-agent:   *)
(* the agent pipeline of agents_orchestrator.py (fetch -> summarize ->     *)
(* act) and the Memory Bank of memory_service.py.                          *)
(*                                                                         *)
(* Python values are tagged records, so that values of different Python    *)
(* types can be compared.  Confidences are in hundredths (0.5 is 50).      *)
(* Result timestamps (datetime.utcnow().isoformat()) of SummaryResult and  *)
(* ActionResult are write-only in the pipeline and are left out.           *)
(***************************************************************************)
EXTENDS Integers, Sequences, FiniteSets, TLC

\* ------------------------------------------------------------------ bounds
\* Largest batch the fetch collaborator returns in one pass.
MaxEmails == 2
\* The clock of the Memory Bank runs from 0 to MaxTime seconds.
MaxTime == 2
\* The largest TTL, in seconds, a store is given.
MaxTTL == 1
\* The longest conversation a session is given.
MaxConversation == 2
\* The clock of the session service runs from 0 to MaxSessionTime seconds.
MaxSessionTime == 1
\* The most entries a trace is let grow to.
MaxTraceLen == 4
\* The most calls of record_email_processed, record_summary_generated,
\* record_action_executed and record_response_time between two resets.
MaxProcessed == 2
MaxSummaries == 1
MaxActions == 4
MaxSamples == 2
\* The most predictions, labels and action results the evaluators hold.
MaxPredictions == 2
MaxLabels == 2
MaxResults == 2
\* The most record_* calls one request thread makes.
MaxThreadCalls == 2
MaxCompactLen == 3

\* ------------------------------------------------------- Python/JSON values
PyStr(s) == [type |-> "str", str |-> s, num |-> 0]
PyNum(n) == [type |-> "num", str |-> "", num |-> n]
PyNone == [type |-> "null", str |-> "", num |-> 0]

\* str.lower() on the strings of the model.
StrLower_Identity(s) == s

StrLower(s) ==
    CASE s = "Reply" -> "reply"
      [] s = "REPLY" -> "reply"
      [] s = "Archive" -> "archive"
      [] s = "ARCHIVE" -> "archive"
      [] s = "Escalate" -> "escalate"
      [] OTHER -> s

\* ------------------------------------------------------ the collaborators
EmailIds == {"m1", "m2"}

\* What gmail_client.list_unread_emails gives back: it raises, or returns a
\* list of dicts, each with an 'id' key or (has_id = FALSE) without one.
FetchItems == [has_id : {TRUE}, id : EmailIds] \cup {[has_id |-> FALSE, id |-> ""]}

RECURSIVE SeqsUpTo(_, _)
SeqsUpTo(S, n) ==
    IF n = 0 THEN {<<>>}
    ELSE LET shorter == SeqsUpTo(S, n - 1)
         IN shorter \cup {Append(q, x) : q \in {r \in shorter : Len(r) = n - 1}, x \in S}

FetchReplies(max_results) ==
    {[raised |-> TRUE, items |-> <<>>]}
      \cup {[raised |-> FALSE, items |-> q] : q \in SeqsUpTo(FetchItems, max_results)}

\* The replies of openai_client.summarize_emails: the call raises (text = the
\* exception), or returns the text.
TextPlain == "Please archive this newsletter."
TextTruncated == "{\"summary\": \"s\", \"act"
TextList == "[\"archive\", 0.9]"
TextString == "\"archive\""
TextNumber == "42"
TextReply == "{\"summary\": \"s\", \"action\": \"reply\", \"confidence\": 0.9}"
TextReplyCaps == "{\"summary\": \"s\", \"action\": \"Reply\", \"confidence\": 0.9}"
TextArchive == "{\"summary\": \"s\", \"action\": \"archive\", \"confidence\": 0.8}"
TextArchiveCaps == "{\"summary\": \"s\", \"action\": \"Archive\", \"confidence\": \"0.8\"}"
TextEscalate == "{\"summary\": \"s\", \"action\": \"escalate\"}"
TextDelete == "{\"summary\": \"s\", \"action\": \"delete\", \"confidence\": 0.9}"
TextActionInt == "{\"action\": 7, \"confidence\": 0.9}"
TextNoAction == "{\"summary\": \"s\"}"
TextConfWord == "{\"summary\": \"s\", \"action\": \"archive\", \"confidence\": \"high\"}"

ResponseTexts ==
    {TextPlain, TextTruncated, TextList, TextString, TextNumber, TextReply,
     TextReplyCaps, TextArchive, TextArchiveCaps, TextEscalate, TextDelete,
     TextActionInt, TextNoAction, TextConfWord}

SummarizerReplies ==
    {[raised |-> TRUE, text |-> "openai.error.APIError"]}
      \cup {[raised |-> FALSE, text |-> t] : t \in ResponseTexts}


\* ------------------------------------------------------ library functions
\* json.loads on the response texts: ok = FALSE is json.JSONDecodeError; else
\* kind is the Python type of the value, and for a dict keys are its keys
\* (among summary, action, confidence) with their values.
JsonValue(kind, keys, s, a, c) ==
    [ok |-> TRUE, kind |-> kind, keys |-> keys, summary |-> s, action |-> a,
     confidence |-> c]
JsonDecodeError ==
    [ok |-> FALSE, kind |-> "", keys |-> {}, summary |-> PyNone, action |-> PyNone,
     confidence |-> PyNone]
JsonDict(keys, a, c) == JsonValue("dict", keys, PyStr("s"), a, c)
AllKeys == {"summary", "action", "confidence"}

JsonLoads(text) ==
    CASE text = TextPlain -> JsonDecodeError
      [] text = TextTruncated -> JsonDecodeError
      [] text = TextList -> JsonValue("list", {}, PyNone, PyNone, PyNone)
      [] text = TextString -> JsonValue("str", {}, PyNone, PyNone, PyNone)
      [] text = TextNumber -> JsonValue("int", {}, PyNone, PyNone, PyNone)
      [] text = TextReply -> JsonDict(AllKeys, PyStr("reply"), PyNum(90))
      [] text = TextReplyCaps -> JsonDict(AllKeys, PyStr("Reply"), PyNum(90))
      [] text = TextArchive -> JsonDict(AllKeys, PyStr("archive"), PyNum(80))
      [] text = TextArchiveCaps -> JsonDict(AllKeys, PyStr("Archive"), PyStr("0.8"))
      [] text = TextEscalate ->
           JsonDict({"summary", "action"}, PyStr("escalate"), PyNone)
      [] text = TextDelete -> JsonDict(AllKeys, PyStr("delete"), PyNum(90))
      [] text = TextActionInt ->
           JsonDict({"action", "confidence"}, PyNum(7), PyNum(90))
      [] text = TextNoAction -> JsonDict({"summary"}, PyNone, PyNone)
      [] text = TextConfWord -> JsonDict(AllKeys, PyStr("archive"), PyStr("high"))

\* dict.get(key, default)
DictGet(d, key, default) ==
    IF key \in d.keys
    THEN CASE key = "summary" -> d.summary
           [] key = "action" -> d.action
           [] key = "confidence" -> d.confidence
    ELSE default

\* float(v): a number, or a string that spells one; ValueError or TypeError
\* otherwise.
PyFloat(v) ==
    CASE v.type = "num" -> [raised |-> FALSE, value |-> v.num]
      [] v.type = "str" /\ v.str = "0.8" -> [raised |-> FALSE, value |-> 80]
      [] OTHER -> [raised |-> TRUE, value |-> 0]

\* The text of the AttributeError of v.lower() for a v that is no str.
NoLowerText(v) ==
    CASE v.type = "num" -> "'int' object has no attribute 'lower'"
      [] OTHER -> "'NoneType' object has no attribute 'lower'"

\* --------------------------------------------------------------- records
EmailMessage(id) == [id |-> id]
SummaryResult(email_id, summary, action, confidence) ==
    [email_id |-> email_id, summary |-> summary, suggested_action |-> action,
     confidence |-> confidence]
ActionResult(email_id, action, status, message) ==
    [email_id |-> email_id, action |-> action, status |-> status,
     message |-> message]

\* What a call gives its caller: a return value, or an exception.
Returned(v) == [raised |-> FALSE, value |-> v]
Raised == [raised |-> TRUE, value |-> PyNone]

\* ------------------------------------------------------- EmailFetcherAgent
\* fetch_emails: the collaborator's dicts as EmailMessage objects, [] when the
\* collaborator raises.
FetchEmails_Propagates(reply) ==
    IF reply.raised
    THEN Raised
    ELSE Returned([i \in 1..Len(reply.items) |->
                     EmailMessage(IF reply.items[i].has_id
                                  THEN reply.items[i].id ELSE "")])

FetchEmails(reply) ==
    IF reply.raised
    THEN Returned(<<>>)
    ELSE Returned([i \in 1..Len(reply.items) |->
                     EmailMessage(IF reply.items[i].has_id
                                  THEN reply.items[i].id ELSE "")])

\* --------------------------------------------------------- SummarizerAgent
\* The body of the outer try of summarize_and_suggest.
SummarizeTry(email, reply) ==
    IF reply.raised
    THEN Raised
    ELSE LET result_json == JsonLoads(reply.text)
             confidence == PyFloat(DictGet(result_json, "confidence", PyNum(50)))
         IN IF ~result_json.ok
            THEN Returned(SummaryResult(email.id, PyStr(reply.text),
                                        PyStr("escalate"), 50))
            ELSE IF result_json.kind # "dict" \/ confidence.raised
            THEN Raised
            ELSE Returned(SummaryResult(
                     email.id,
                     DictGet(result_json, "summary", PyStr(reply.text)),
                     DictGet(result_json, "action", PyStr("escalate")),
                     confidence.value))

SummarizeAndSuggest_Propagates(email, reply) == SummarizeTry(email, reply)

SummarizeAndSuggest_NoIdOnFailure(email, reply) ==
    LET body == SummarizeTry(email, reply)
    IN IF body.raised
       THEN Returned(SummaryResult("", PyStr("(summarization failed)"),
                                   PyStr("escalate"), 0))
       ELSE body

SummarizeAndSuggest(email, reply) ==
    LET body == SummarizeTry(email, reply)
    IN IF body.raised
       THEN Returned(SummaryResult(email.id, PyStr("(summarization failed)"),
                                   PyStr("escalate"), 0))
       ELSE body

\* ------------------------------------------------------------- ActionAgent
\* What execute_action gives: the ActionResult and the archive calls it made
\* on the side-effect executor.
Acted(result, archived) == [raised |-> FALSE, value |-> result, archived |-> archived]

\* The try block of execute_action: .lower() raises on a suggested action
\* that is no str; the archive branch only sets the status (no executor call).
ActionTry(summary) ==
    IF summary.suggested_action.type # "str"
    THEN [raised |-> TRUE, text |-> NoLowerText(summary.suggested_action),
          status |-> "", action |-> PyNone]
    ELSE LET action == StrLower(summary.suggested_action.str)
         IN [raised |-> FALSE,
             text |-> CASE action = "archive" -> "Archived"
                        [] action = "reply" -> "Ready for human reply"
                        [] OTHER -> "Escalated to human review",
             status |-> CASE action = "archive" -> "success"
                          [] action = "reply" -> "pending_approval"
                          [] OTHER -> "success",
             action |-> PyStr(action)]

\* execute_action past the approval gate: the try block and its handler.
ActUnapproved(summary) ==
    LET body == ActionTry(summary)
    IN IF body.raised
       THEN Acted(ActionResult(summary.email_id, summary.suggested_action,
                               "failed", body.text), <<>>)
       ELSE Acted(ActionResult(summary.email_id, body.action, body.status,
                               body.text), <<>>)

ExecuteAction_NoGate(summary, requires_approval) == ActUnapproved(summary)

ExecuteAction(summary, requires_approval) ==
    IF requires_approval
    THEN Acted(ActionResult(summary.email_id, summary.suggested_action,
                            "pending_approval", "Awaiting human approval"), <<>>)
    ELSE ActUnapproved(summary)

\* ---------------------------------------------------------------- state
VARIABLES
    pc,               \* where process_inbox stands
    max_emails,       \* its arguments
    require_approval,
    fetch_reply,      \* what the fetch collaborator gave in this pass
    replies,          \* what the summarization collaborator gave, per item
    emails,           \* process_inbox's locals
    summaries,
    actions,
    report,           \* the dict this call of process_inbox returns
    summarize_calls,  \* calls of the summarization collaborator in this pass
    action_calls,     \* calls of execute_action in this pass
    archive_calls,    \* archive calls on the side-effect executor in this pass
    memory,           \* MemoryBank.memory: the entries, in insertion order
    now,              \* datetime.utcnow(), in seconds
    mem_call,         \* the last MemoryBank call and what it returned
    mem_hist,         \* history, per key: its last store, and what happened since
    sessions,         \* InMemorySessionService.sessions
    sess_call,        \* the last InMemorySessionService call
    traces,           \* RequestTracer.traces
    tr_call,          \* the last RequestTracer call and what it returned
    tr_hist,          \* history, per trace id: the calls since its last start_trace
    metrics,          \* MetricsCollector.metrics
    mt_call,          \* the last MetricsCollector call, and whether it raised
    mt_hist,          \* history: the calls since construction or the last reset
    predictions,      \* SummarizerEvaluator.predictions
    ground_truth,     \* SummarizerEvaluator.ground_truth
    action_results,   \* ActionEvaluator.action_results
    ev_call,          \* the last evaluator call and what it returned
    start_time,       \* OverallEvaluator.start_time
    mt_threads,       \* the request threads inside a MetricsCollector.record_* call
    mt_returned,      \* history: the record_* calls that have returned, per method
    mem_threads,      \* the request threads inside a MemoryBank call
    mem_race,         \* history: what the threads' interleaved calls have done
    tr_threads,       \* the request threads inside a RequestTracer.add_span call
    tr_added,         \* history: the add_span calls that have returned, per span
    compact_input,    \* the message list a caller holds and passes to compact_conversation
    compact_call      \* the last compact_conversation call and what it returned

pipeline_vars ==
    <<pc, max_emails, require_approval, fetch_reply, replies, emails, summaries,
      actions, report, summarize_calls, action_calls, archive_calls>>

memory_vars == <<memory, now, mem_call, mem_hist>>

session_vars == <<sessions, sess_call>>

tracer_vars == <<traces, tr_call, tr_hist>>

metrics_vars == <<metrics, mt_call, mt_hist>>

eval_vars == <<predictions, ground_truth, action_results, ev_call, start_time>>

race_vars == <<mt_threads, mt_returned>>

mem_race_vars == <<mem_threads, mem_race>>

tr_race_vars == <<tr_threads, tr_added>>
compact_vars == <<compact_input, compact_call>>

vars == <<pipeline_vars, memory_vars, session_vars, tracer_vars, metrics_vars, eval_vars, race_vars, mem_race_vars, tr_race_vars, compact_vars>>

NoFetch == [raised |-> FALSE, items |-> <<>>]
Report(n, s, a) == [total_emails |-> n, summaries |-> s, actions |-> a]

PipelineInit ==
    /\ pc = "idle"
    /\ max_emails = 1
    /\ require_approval = TRUE
    /\ fetch_reply = NoFetch
    /\ replies = <<>>
    /\ emails = <<>>
    /\ summaries = <<>>
    /\ actions = <<>>
    /\ report = Report(0, <<>>, <<>>)
    /\ summarize_calls = 0
    /\ action_calls = 0
    /\ archive_calls = <<>>

\* ------------------------------------------------------------ MemoryBank
Keys == {"k1", "k2"}
Values == {PyStr("v1"), PyStr("v2")}
\* ttl_seconds: None, or an int.
TTLs == {PyNone} \cup {PyNum(n) : n \in 0..MaxTTL}

\* datetime.isoformat() and datetime.fromisoformat(): the text keeps the
\* naive datetime whole.
IsoFormat(t) == [iso |-> t]
FromIsoFormat(text) == text.iso

\* bool(v) of an Optional[int].
Truthy(v) == v.type = "num" /\ v.num # 0

MemoryEntry(key, value, timestamp, ttl_seconds) ==
    [key |-> key, value |-> value, timestamp |-> timestamp,
     ttl_seconds |-> ttl_seconds]

\* The dict self.memory as the sequence of its entries.
DictKeys(d) == [i \in 1..Len(d) |-> d[i].key]
DictHas(d, key) == \E i \in 1..Len(d) : d[i].key = key
DictAt(d, key) == d[CHOOSE i \in 1..Len(d) : d[i].key = key]
DictSet(d, key, entry) ==
    IF DictHas(d, key)
    THEN [i \in 1..Len(d) |-> IF d[i].key = key THEN entry ELSE d[i]]
    ELSE Append(d, entry)
DictDel(d, key) == SelectSeq(d, LAMBDA e : e.key # key)

MemCall(op, key, ret, keys) ==
    [op |-> op, key |-> key, at |-> now, ret |-> ret, keys |-> keys]
\* replaced: the last store overwrote an older resident entry that held
\* another value under a positive TTL.
NoHist ==
    [stored |-> FALSE, value |-> PyNone, at |-> 0, ttl_seconds |-> PyNone,
     removed |-> FALSE, read_late |-> FALSE, replaced |-> FALSE]

MemoryInit ==
    /\ memory = <<>>
    /\ now = 0
    /\ mem_call = [op |-> "none", key |-> "", at |-> 0, ret |-> PyNone, keys |-> <<>>]
    /\ mem_hist = [k \in Keys |-> NoHist]

\* store(key, value, ttl_seconds)
StoredDict_KeepsExpiry(d, key, value, ttl_seconds) ==
    IF DictHas(d, key)
    THEN DictSet(d, key, MemoryEntry(key, value, DictAt(d, key).timestamp,
                                     DictAt(d, key).ttl_seconds))
    ELSE DictSet(d, key, MemoryEntry(key, value, IsoFormat(now), ttl_seconds))

StoredDict(d, key, value, ttl_seconds) ==
    DictSet(d, key, MemoryEntry(key, value, IsoFormat(now), ttl_seconds))

Store(key, value, ttl_seconds) ==
    /\ memory' = StoredDict(memory, key, value, ttl_seconds)
    /\ mem_call' = MemCall("store", key, PyNone, <<>>)
    /\ mem_hist' = [mem_hist EXCEPT ![key] =
                      [stored |-> TRUE, value |-> value, at |-> now,
                       ttl_seconds |-> ttl_seconds, removed |-> FALSE,
                       read_late |-> FALSE,
                       replaced |->
                           /\ DictHas(memory, key)
                           /\ DictAt(memory, key).value # value
                           /\ DictAt(memory, key).ttl_seconds.type = "num"
                           /\ DictAt(memory, key).ttl_seconds.num >= 1
                           /\ FromIsoFormat(DictAt(memory, key).timestamp) < now]]
    /\ UNCHANGED now

\* retrieve(key): whether the entry read has expired (the TTL check).
Expired_AtTTL(entry) ==
    /\ Truthy(entry.ttl_seconds)
    /\ now - FromIsoFormat(entry.timestamp) >= entry.ttl_seconds.num

Expired_NoneIsZero(entry) ==
    now - FromIsoFormat(entry.timestamp)
        > (IF entry.ttl_seconds.type = "num" THEN entry.ttl_seconds.num ELSE 0)

Expired(entry) ==
    /\ Truthy(entry.ttl_seconds)
    /\ now - FromIsoFormat(entry.timestamp) > entry.ttl_seconds.num

Retrieve(key) ==
    /\ IF DictHas(memory, key)
       THEN LET entry == DictAt(memory, key)
            IN IF Expired(entry)
               THEN /\ memory' = DictDel(memory, key)
                    /\ mem_call' = MemCall("retrieve", key, PyNone, <<>>)
               ELSE /\ memory' = memory
                    /\ mem_call' = MemCall("retrieve", key, entry.value, <<>>)
       ELSE /\ memory' = memory
            /\ mem_call' = MemCall("retrieve", key, PyNone, <<>>)
    /\ mem_hist' = [mem_hist EXCEPT ![key].read_late =
                      \/ @
                      \/ /\ mem_hist[key].stored
                         /\ mem_hist[key].ttl_seconds.type = "num"
                         /\ now - mem_hist[key].at > mem_hist[key].ttl_seconds.num]
    /\ UNCHANGED now

\* list_keys()
ListKeys_HidesExpired ==
    /\ mem_call' = MemCall("list_keys", "", PyNone,
                           DictKeys(SelectSeq(memory, LAMBDA e : ~Expired(e))))
    /\ UNCHANGED <<memory, now, mem_hist>>

ListKeys ==
    /\ mem_call' = MemCall("list_keys", "", PyNone, DictKeys(memory))
    /\ UNCHANGED <<memory, now, mem_hist>>

\* delete(key)
Delete(key) ==
    /\ memory' = IF DictHas(memory, key) THEN DictDel(memory, key) ELSE memory
    /\ mem_call' = MemCall("delete", key, PyNone, <<>>)
    /\ mem_hist' = [mem_hist EXCEPT ![key].removed = TRUE]
    /\ UNCHANGED now

\* clear()
Clear ==
    /\ memory' = <<>>
    /\ mem_call' = MemCall("clear", "", PyNone, <<>>)
    /\ mem_hist' = [k \in Keys |-> [mem_hist[k] EXCEPT !.removed = TRUE]]
    /\ UNCHANGED now

\* A second passes.
Tick ==
    /\ now < MaxTime
    /\ now' = now + 1
    /\ UNCHANGED <<memory, mem_call, mem_hist>>

MemoryNext ==
    \/ \E key \in Keys, value \in Values, ttl_seconds \in TTLs :
         Store(key, value, ttl_seconds) /\ UNCHANGED <<pipeline_vars, session_vars, tracer_vars, metrics_vars, eval_vars, race_vars, mem_race_vars, tr_race_vars, compact_vars>>
    \/ \E key \in Keys : Retrieve(key) /\ UNCHANGED <<pipeline_vars, session_vars, tracer_vars, metrics_vars, eval_vars, race_vars, mem_race_vars, tr_race_vars, compact_vars>>
    \/ ListKeys /\ UNCHANGED <<pipeline_vars, session_vars, tracer_vars, metrics_vars, eval_vars, race_vars, mem_race_vars, tr_race_vars, compact_vars>>
    \/ \E key \in Keys : Delete(key) /\ UNCHANGED <<pipeline_vars, session_vars, tracer_vars, metrics_vars, eval_vars, race_vars, mem_race_vars, tr_race_vars, compact_vars>>
    \/ Clear /\ UNCHANGED <<pipeline_vars, session_vars, tracer_vars, metrics_vars, eval_vars, race_vars, mem_race_vars, tr_race_vars, compact_vars>>
    \/ Tick /\ UNCHANGED <<pipeline_vars, session_vars, tracer_vars, metrics_vars, eval_vars, race_vars, mem_race_vars, tr_race_vars, compact_vars>>

\* ------------------------------------------------- InMemorySessionService
SessionIds == {"s1", "s2"}

\* ConversationMessage.to_dict() of the messages the callers add.
Messages ==
    {[role |-> "user", content |-> "hi", timestamp |-> IsoFormat(0)],
     [role |-> "assistant", content |-> "hello", timestamp |-> IsoFormat(0)]}

\* The data dicts given to update_session, as functions from key to value.
PatchTopic == [k \in {"topic"} |-> PyStr("billing")]
PatchLastActivity == [k \in {"last_activity"} |-> IsoFormat(0)]
PatchConversation == [k \in {"conversation"} |-> <<>>]
Patches == {PatchTopic, PatchLastActivity, PatchConversation}

\* dict.update(data)
DictUpdate(d, data) ==
    [k \in DOMAIN d \cup DOMAIN data |-> IF k \in DOMAIN data THEN data[k] ELSE d[k]]

NewSession ==
    [k \in {"created_at", "last_activity", "conversation", "metadata"} |->
       CASE k = "created_at" -> IsoFormat(now)
         [] k = "last_activity" -> IsoFormat(now)
         [] k = "conversation" -> <<>>
         [] k = "metadata" -> {}]

SessionsWithout(ss, session_id) == [i \in DOMAIN ss \ {session_id} |-> ss[i]]
SessionsWith(ss, session_id, session) ==
    [i \in DOMAIN ss \cup {session_id} |-> IF i = session_id THEN session ELSE ss[i]]

\* create_session(session_id)
CreatedSession_Overwrites(ss, session_id) == SessionsWith(ss, session_id, NewSession)

CreatedSession(ss, session_id) ==
    IF session_id \notin DOMAIN ss
    THEN SessionsWith(ss, session_id, NewSession)
    ELSE ss

\* update_session(session_id, data)
UpdatedSession_PatchWins(ss, session_id, data) ==
    IF session_id \in DOMAIN ss
    THEN SessionsWith(ss, session_id,
           DictUpdate(DictUpdate(ss[session_id],
                                 [k \in {"last_activity"} |-> IsoFormat(now)]),
                      data))
    ELSE ss

UpdatedSession(ss, session_id, data) ==
    IF session_id \in DOMAIN ss
    THEN SessionsWith(ss, session_id,
           DictUpdate(DictUpdate(ss[session_id], data),
                      [k \in {"last_activity"} |-> IsoFormat(now)]))
    ELSE ss

\* add_message(session_id, message)
AddedMessage_Creates(ss, session_id, message) ==
    LET session == IF session_id \in DOMAIN ss THEN ss[session_id] ELSE NewSession
    IN SessionsWith(ss, session_id,
         DictUpdate(session,
                    [k \in {"conversation"} |->
                       Append(session["conversation"], message)]))

AddedMessage(ss, session_id, message) ==
    IF session_id \in DOMAIN ss
    THEN SessionsWith(ss, session_id,
           DictUpdate(ss[session_id],
                      [k \in {"conversation"} |->
                         Append(ss[session_id]["conversation"], message)]))
    ELSE ss

\* delete_session(session_id)
DeletedSession(ss, session_id) ==
    IF session_id \in DOMAIN ss THEN SessionsWithout(ss, session_id) ELSE ss

\* existed: whether the session was there when the call came; conv: the list
\* get_conversation returned.
SessCall(op, session_id, conv) ==
    [op |-> op, id |-> session_id, existed |-> session_id \in DOMAIN sessions,
     raised |-> FALSE, conv |-> conv]

SessionInit ==
    /\ sessions = [i \in {} |-> NewSession]
    /\ sess_call = [op |-> "none", id |-> "", existed |-> FALSE, raised |-> FALSE,
                    conv |-> <<>>]

CreateSession(session_id) ==
    /\ sessions' = CreatedSession(sessions, session_id)
    /\ sess_call' = SessCall("create_session", session_id, <<>>)

GetSession(session_id) ==
    /\ sess_call' = SessCall("get_session", session_id, <<>>)
    /\ UNCHANGED sessions

UpdateSession(session_id, data) ==
    /\ sessions' = UpdatedSession(sessions, session_id, data)
    /\ sess_call' = SessCall("update_session", session_id, <<>>)

AddMessage(session_id, message) ==
    /\ session_id \in DOMAIN sessions
         => Len(sessions[session_id]["conversation"]) < MaxConversation
    /\ sessions' = AddedMessage(sessions, session_id, message)
    /\ sess_call' = SessCall("add_message", session_id, <<>>)

GetConversation(session_id) ==
    /\ sess_call' = SessCall("get_conversation", session_id,
                             IF session_id \in DOMAIN sessions
                             THEN sessions[session_id]["conversation"] ELSE <<>>)
    /\ UNCHANGED sessions

DeleteSession(session_id) ==
    /\ sessions' = DeletedSession(sessions, session_id)
    /\ sess_call' = SessCall("delete_session", session_id, <<>>)

\* A second passes.
SessionTick ==
    /\ now < MaxSessionTime
    /\ now' = now + 1
    /\ UNCHANGED <<memory, mem_call, mem_hist>>

SessionNext ==
    \/ \E id \in SessionIds : CreateSession(id) /\ UNCHANGED <<pipeline_vars, memory_vars, tracer_vars, metrics_vars, eval_vars, race_vars, mem_race_vars, tr_race_vars, compact_vars>>
    \/ \E id \in SessionIds : GetSession(id) /\ UNCHANGED <<pipeline_vars, memory_vars, tracer_vars, metrics_vars, eval_vars, race_vars, mem_race_vars, tr_race_vars, compact_vars>>
    \/ \E id \in SessionIds, data \in Patches :
         UpdateSession(id, data) /\ UNCHANGED <<pipeline_vars, memory_vars, tracer_vars, metrics_vars, eval_vars, race_vars, mem_race_vars, tr_race_vars, compact_vars>>
    \/ \E id \in SessionIds, message \in Messages :
         AddMessage(id, message) /\ UNCHANGED <<pipeline_vars, memory_vars, tracer_vars, metrics_vars, eval_vars, race_vars, mem_race_vars, tr_race_vars, compact_vars>>
    \/ \E id \in SessionIds : GetConversation(id) /\ UNCHANGED <<pipeline_vars, memory_vars, tracer_vars, metrics_vars, eval_vars, race_vars, mem_race_vars, tr_race_vars, compact_vars>>
    \/ \E id \in SessionIds : DeleteSession(id) /\ UNCHANGED <<pipeline_vars, memory_vars, tracer_vars, metrics_vars, eval_vars, race_vars, mem_race_vars, tr_race_vars, compact_vars>>
    \/ SessionTick /\ UNCHANGED <<pipeline_vars, session_vars, tracer_vars, metrics_vars, eval_vars, race_vars, mem_race_vars, tr_race_vars, compact_vars>>

\* ----------------------------------------------------------- RequestTracer
TraceIds == {"t1", "t2"}

\* The spans the callers add: a name and a data dict (its items).
Spans ==
    {[name |-> "a", data |-> {}],
     [name |-> "b", data |-> {<<"max_emails", 10>>}]}

\* json.dumps(data)
JsonDumps(data) ==
    CASE data = {} -> "{}"
      [] data = {<<"max_emails", 10>>} -> "{\"max_emails\": 10}"

\* The entries of a trace, f"[{tag}] {text}": the markers carry the time,
\* the spans their data.
TraceEntry(tag, stamp, text) == [tag |-> tag, stamp |-> stamp, text |-> text]
StartMarker == TraceEntry("START", IsoFormat(now), "")
EndMarker == TraceEntry("END", IsoFormat(now), "")
SpanEntry(span) == TraceEntry(span.name, IsoFormat(0), JsonDumps(span.data))

TracesWith(tr, trace_id, entries) ==
    [i \in DOMAIN tr \cup {trace_id} |-> IF i = trace_id THEN entries ELSE tr[i]]

\* start_trace(trace_id)
StartedTrace_KeepsSpans(tr, trace_id) ==
    IF trace_id \in DOMAIN tr THEN tr ELSE TracesWith(tr, trace_id, <<StartMarker>>)

StartedTrace(tr, trace_id) == TracesWith(tr, trace_id, <<StartMarker>>)

\* add_span(trace_id, span_name, data)
AddedSpan_AlwaysStarts(tr, trace_id, span) ==
    TracesWith(tr, trace_id, Append(StartedTrace(tr, trace_id)[trace_id],
                                    SpanEntry(span)))

AddedSpan(tr, trace_id, span) ==
    LET started == IF trace_id \notin DOMAIN tr THEN StartedTrace(tr, trace_id) ELSE tr
    IN TracesWith(started, trace_id, Append(started[trace_id], SpanEntry(span)))

\* end_trace(trace_id): the traces after it, and the list it returns.
EndedTrace_Creates(tr, trace_id) ==
    TracesWith(tr, trace_id,
               Append(IF trace_id \in DOMAIN tr THEN tr[trace_id] ELSE <<>>, EndMarker))

EndedTrace(tr, trace_id) ==
    IF trace_id \in DOMAIN tr
    THEN TracesWith(tr, trace_id, Append(tr[trace_id], EndMarker))
    ELSE tr

EndTraceReturn(tr, trace_id) ==
    IF trace_id \in DOMAIN tr THEN EndedTrace(tr, trace_id)[trace_id] ELSE <<>>

\* get_trace(trace_id)
GotTrace(tr, trace_id) == IF trace_id \in DOMAIN tr THEN tr[trace_id] ELSE <<>>

NoSpan == [name |-> "", data |-> {}]
\* had: the entries the trace held when the call came.
TrCall(op, trace_id, span, ret) ==
    [op |-> op, id |-> trace_id, existed |-> trace_id \in DOMAIN traces,
     had |-> IF trace_id \in DOMAIN traces THEN Len(traces[trace_id]) ELSE 0,
     span |-> span, ret |-> ret]
\* phase: "started" after start_trace and add_span calls only, "ended" after
\* an end_trace that follows them, "other" otherwise; spans: the spans added
\* since the start_trace.
NoTraceHist == [phase |-> "other", spans |-> <<>>]

TracerInit ==
    /\ traces = [i \in {} |-> <<>>]
    /\ tr_call = [op |-> "none", id |-> "", existed |-> FALSE, had |-> 0,
                  span |-> NoSpan, ret |-> <<>>]
    /\ tr_hist = [i \in TraceIds |-> NoTraceHist]

StartTrace(trace_id) ==
    /\ traces' = StartedTrace(traces, trace_id)
    /\ tr_call' = TrCall("start_trace", trace_id, NoSpan, <<>>)
    /\ tr_hist' = [tr_hist EXCEPT ![trace_id] = [phase |-> "started", spans |-> <<>>]]

AddSpan(trace_id, span) ==
    /\ trace_id \in DOMAIN traces => Len(traces[trace_id]) < MaxTraceLen
    /\ traces' = AddedSpan(traces, trace_id, span)
    /\ tr_call' = TrCall("add_span", trace_id, span, <<>>)
    /\ tr_hist' = [tr_hist EXCEPT ![trace_id] =
                     IF @.phase = "started"
                     THEN [phase |-> "started", spans |-> Append(@.spans, span)]
                     ELSE NoTraceHist]

EndTrace(trace_id) ==
    /\ trace_id \in DOMAIN traces => Len(traces[trace_id]) < MaxTraceLen
    /\ traces' = EndedTrace(traces, trace_id)
    /\ tr_call' = TrCall("end_trace", trace_id, NoSpan, EndTraceReturn(traces, trace_id))
    /\ tr_hist' = [tr_hist EXCEPT ![trace_id] =
                     IF @.phase = "started"
                     THEN [phase |-> "ended", spans |-> @.spans]
                     ELSE NoTraceHist]

GetTrace(trace_id) ==
    /\ tr_call' = TrCall("get_trace", trace_id, NoSpan, GotTrace(traces, trace_id))
    /\ UNCHANGED <<traces, tr_hist>>

ClearTraces ==
    /\ traces' = [i \in {} |-> <<>>]
    /\ tr_call' = [op |-> "clear_traces", id |-> "", existed |-> FALSE, had |-> 0,
                   span |-> NoSpan, ret |-> <<>>]
    /\ tr_hist' = [i \in TraceIds |-> NoTraceHist]

TracerNext ==
    \/ \E id \in TraceIds :
         StartTrace(id) /\ UNCHANGED <<pipeline_vars, memory_vars, session_vars, metrics_vars, eval_vars, race_vars, mem_race_vars, tr_race_vars, compact_vars>>
    \/ \E id \in TraceIds, span \in Spans :
         AddSpan(id, span) /\ UNCHANGED <<pipeline_vars, memory_vars, session_vars, metrics_vars, eval_vars, race_vars, mem_race_vars, tr_race_vars, compact_vars>>
    \/ \E id \in TraceIds :
         EndTrace(id) /\ UNCHANGED <<pipeline_vars, memory_vars, session_vars, metrics_vars, eval_vars, race_vars, mem_race_vars, tr_race_vars, compact_vars>>
    \/ \E id \in TraceIds :
         GetTrace(id) /\ UNCHANGED <<pipeline_vars, memory_vars, session_vars, metrics_vars, eval_vars, race_vars, mem_race_vars, tr_race_vars, compact_vars>>
    \/ ClearTraces /\ UNCHANGED <<pipeline_vars, memory_vars, session_vars, metrics_vars, eval_vars, race_vars, mem_race_vars, tr_race_vars, compact_vars>>

\* -------------------------------------------------------- MetricsCollector
\* The statuses record_action_executed is called with: those of ActionResult,
\* and the default of the route for a result without one.
Statuses == {"success", "failed", "pending_approval", "unknown"}

\* The response times recorded, in milliseconds.
Samples == {100, 250}

\* A float as an exact fraction in lowest terms.
RECURSIVE GCD(_, _)
GCD(a, b) == IF b = 0 THEN a ELSE GCD(b, a % b)
Abs(n) == IF n < 0 THEN -n ELSE n
Fraction(num, den) ==
    LET g == GCD(Abs(num), den)
    IN [num |-> num \div g, den |-> den \div g]
FloatZero == Fraction(0, 1)
FloatTimesInt(x, n) == Fraction(x.num * n, x.den)
FloatPlusInt(x, n) == Fraction(x.num + n * x.den, x.den)
\* x / n: ZeroDivisionError for n = 0.
FloatOverInt(x, n) ==
    IF n = 0 THEN Raised
    ELSE IF n < 0 THEN Returned(Fraction(-x.num, x.den * (-n)))
    ELSE Returned(Fraction(x.num, x.den * n))

NewMetrics ==
    [total_emails_processed |-> 0,
     total_summaries_generated |-> 0,
     total_actions_executed |-> 0,
     avg_response_time_ms |-> FloatZero,
     success_count |-> 0,
     error_count |-> 0,
     pending_approval_count |-> 0]

\* record_action_executed(status)
RecordedAction_FailedUncounted(m, status) ==
    LET counted == [m EXCEPT !.total_actions_executed = @ + 1]
    IN CASE status = "success" -> [counted EXCEPT !.success_count = @ + 1]
         [] status = "error" -> [counted EXCEPT !.error_count = @ + 1]
         [] status = "pending_approval" -> [counted EXCEPT !.pending_approval_count = @ + 1]
         [] OTHER -> counted

RecordedAction(m, status) ==
    LET counted == [m EXCEPT !.total_actions_executed = @ + 1]
    IN CASE status = "success" -> [counted EXCEPT !.success_count = @ + 1]
         [] status = "failed" -> [counted EXCEPT !.error_count = @ + 1]
         [] status = "pending_approval" -> [counted EXCEPT !.pending_approval_count = @ + 1]
         [] OTHER -> counted

\* record_response_time(time_ms): the new average, unless the division raises.
RecordedResponseTime_Unweighted(m, time_ms) ==
    FloatOverInt(FloatPlusInt(m.avg_response_time_ms, time_ms), 2)

RecordedResponseTime(m, time_ms) ==
    LET total == FloatTimesInt(m.avg_response_time_ms, m.total_emails_processed - 1)
    IN FloatOverInt(FloatPlusInt(total, time_ms), m.total_emails_processed)

MtCall(op, raised) == [op |-> op, raised |-> raised]
\* by_status: the record_action_executed calls, per status; paired: every
\* record_response_time so far came after a record_email_processed of its own;
\* awaiting: the last record_email_processed has no sample yet; samples, sum:
\* the number and the sum of the samples recorded.
NoMetricsHist ==
    [by_status |-> [st \in Statuses |-> 0], paired |-> TRUE, awaiting |-> FALSE,
     samples |-> 0, sum |-> 0]

MetricsInit ==
    /\ metrics = NewMetrics
    /\ mt_call = MtCall("none", FALSE)
    /\ mt_hist = NoMetricsHist

RecordEmailProcessed ==
    /\ metrics.total_emails_processed < MaxProcessed
    /\ metrics' = [metrics EXCEPT !.total_emails_processed = @ + 1]
    /\ mt_call' = MtCall("record_email_processed", FALSE)
    /\ mt_hist' = [mt_hist EXCEPT !.paired = @ /\ ~mt_hist.awaiting,
                                  !.awaiting = TRUE]

RecordSummaryGenerated ==
    /\ metrics.total_summaries_generated < MaxSummaries
    /\ metrics' = [metrics EXCEPT !.total_summaries_generated = @ + 1]
    /\ mt_call' = MtCall("record_summary_generated", FALSE)
    /\ UNCHANGED mt_hist

RecordActionExecuted(status) ==
    /\ metrics.total_actions_executed < MaxActions
    /\ metrics' = RecordedAction(metrics, status)
    /\ mt_call' = MtCall("record_action_executed", FALSE)
    /\ mt_hist' = [mt_hist EXCEPT !.by_status[status] = @ + 1]

RecordResponseTime(time_ms) ==
    LET r == RecordedResponseTime(metrics, time_ms)
    IN /\ mt_hist.samples < MaxSamples
       /\ metrics' = IF r.raised THEN metrics
                     ELSE [metrics EXCEPT !.avg_response_time_ms = r.value]
       /\ mt_call' = MtCall("record_response_time", r.raised)
       /\ mt_hist' = [mt_hist EXCEPT !.paired = @ /\ mt_hist.awaiting,
                                     !.awaiting = FALSE,
                                     !.samples = @ + 1,
                                     !.sum = @ + time_ms]

GetMetrics ==
    /\ mt_call' = MtCall("get_metrics", FALSE)
    /\ UNCHANGED <<metrics, mt_hist>>

\* reset: every int back to 0, every float back to 0.0.
ResetMetrics ==
    /\ metrics' = NewMetrics
    /\ mt_call' = MtCall("reset", FALSE)
    /\ mt_hist' = NoMetricsHist

MetricsNext ==
    \/ RecordEmailProcessed /\ UNCHANGED <<pipeline_vars, memory_vars, session_vars, tracer_vars, eval_vars, race_vars, mem_race_vars, tr_race_vars, compact_vars>>
    \/ RecordSummaryGenerated /\ UNCHANGED <<pipeline_vars, memory_vars, session_vars, tracer_vars, eval_vars, race_vars, mem_race_vars, tr_race_vars, compact_vars>>
    \/ \E status \in Statuses : RecordActionExecuted(status) /\ UNCHANGED <<pipeline_vars, memory_vars, session_vars, tracer_vars, eval_vars, race_vars, mem_race_vars, tr_race_vars, compact_vars>>
    \/ \E time_ms \in Samples : RecordResponseTime(time_ms) /\ UNCHANGED <<pipeline_vars, memory_vars, session_vars, tracer_vars, eval_vars, race_vars, mem_race_vars, tr_race_vars, compact_vars>>
    \/ GetMetrics /\ UNCHANGED <<pipeline_vars, memory_vars, session_vars, tracer_vars, eval_vars, race_vars, mem_race_vars, tr_race_vars, compact_vars>>
    \/ ResetMetrics /\ UNCHANGED <<pipeline_vars, memory_vars, session_vars, tracer_vars, eval_vars, race_vars, mem_race_vars, tr_race_vars, compact_vars>>

\* ------------------------------------------------------------- evaluators
\* The predictions, labels and action results the callers add. Confidences
\* are in hundredths.
PredictionSamples ==
    {[email_id |-> "1", summary |-> "s", action |-> "Archive", confidence |-> 90],
     [email_id |-> "2", summary |-> "s", action |-> "reply", confidence |-> 50]}

LabelSamples ==
    {[email_id |-> "1", true_action |-> "archive"],
     [email_id |-> "2", true_action |-> "REPLY"],
     [email_id |-> "1", true_action |-> "reply"]}

ResultSamples ==
    {[email_id |-> "1", action |-> "archive", status |-> "success", human_approved |-> "True"],
     [email_id |-> "2", action |-> "reply", status |-> "pending_approval", human_approved |-> "None"],
     [email_id |-> "3", action |-> "escalate", status |-> "failed", human_approved |-> "False"]}

ActionResultDict(result) ==
    [email_id |-> result.email_id, action |-> result.action, status |-> result.status,
     human_approved |-> result.human_approved, timestamp |-> IsoFormat(now)]

\* a / b: ZeroDivisionError for b = 0.
TrueDiv(a, b) == IF b = 0 THEN Raised ELSE Returned(Fraction(a, b))

\* a / total if total > 0 else 0.0
Ratio_Unguarded(a, total) == TrueDiv(a, total)

Ratio(a, total) == IF total > 0 THEN TrueDiv(a, total) ELSE Returned(FloatZero)

\* {gt['email_id']: gt['true_action'] for gt in ground_truth}
RECURSIVE TruthMap(_)
TruthMap(gts) ==
    IF gts = <<>> THEN [i \in {} |-> ""]
    ELSE LET rest == TruthMap(SubSeq(gts, 1, Len(gts) - 1))
             gt == gts[Len(gts)]
         IN [i \in DOMAIN rest \cup {gt.email_id} |->
                IF i = gt.email_id THEN gt.true_action ELSE rest[i]]

\* The loop of evaluate_actions over the predictions: correct, the matched
\* predictions, and total_confidence.
RECURSIVE ScorePredictions(_, _)
ScorePredictions(preds, truth_map) ==
    IF preds = <<>> THEN [correct |-> 0, matched |-> 0, total_confidence |-> 0]
    ELSE LET acc == ScorePredictions(SubSeq(preds, 1, Len(preds) - 1), truth_map)
             pred == preds[Len(preds)]
         IN IF pred.email_id \in DOMAIN truth_map
            THEN [correct |-> acc.correct
                                + (IF StrLower(pred.action) = StrLower(truth_map[pred.email_id])
                                   THEN 1 ELSE 0),
                  matched |-> acc.matched + 1,
                  total_confidence |-> acc.total_confidence + pred.confidence]
            ELSE acc

AgentEvalMetrics(total, correct, accuracy, avg_confidence) ==
    [total_predictions |-> total, correct_predictions |-> correct,
     precision |-> FloatZero, recall |-> FloatZero, f1_score |-> FloatZero,
     accuracy |-> accuracy, avg_confidence |-> avg_confidence]

\* evaluate_actions()
EvaluatedActions_OverMatched(preds, gts) ==
    LET score == ScorePredictions(preds, TruthMap(gts))
        accuracy == Ratio(score.correct, score.matched)
        avg_confidence == Ratio(score.total_confidence, score.matched)
    IN IF accuracy.raised \/ avg_confidence.raised THEN Raised
       ELSE Returned(AgentEvalMetrics(Len(preds), score.correct, accuracy.value,
                                      avg_confidence.value))

EvaluatedActions(preds, gts) ==
    LET score == ScorePredictions(preds, TruthMap(gts))
        accuracy == Ratio(score.correct, Len(preds))
        avg_confidence == Ratio(score.total_confidence, Len(preds))
    IN IF accuracy.raised \/ avg_confidence.raised THEN Raised
       ELSE Returned(AgentEvalMetrics(Len(preds), score.correct, accuracy.value,
                                      avg_confidence.value))

CountWhere(results, field, value) ==
    Cardinality({i \in 1..Len(results) : results[i][field] = value})

\* evaluate_success_rate()
EvaluatedSuccessRate(results) ==
    IF results = <<>>
    THEN Returned([success_rate |-> FloatZero, total_actions |-> 0])
    ELSE LET rate == Ratio(CountWhere(results, "status", "success"), Len(results))
         IN IF rate.raised THEN Raised
            ELSE Returned([total_actions |-> Len(results),
                           successful |-> CountWhere(results, "status", "success"),
                           pending_approval |-> CountWhere(results, "status", "pending_approval"),
                           failed |-> CountWhere(results, "status", "failed"),
                           success_rate |-> rate.value])

\* evaluate_human_approval_rate()
EvaluatedApprovalRate(results) ==
    LET rate == Ratio(CountWhere(results, "human_approved", "True"), Len(results))
    IN IF rate.raised THEN Raised
       ELSE Returned([total |-> Len(results),
                      approved |-> CountWhere(results, "human_approved", "True"),
                      rejected |-> CountWhere(results, "human_approved", "False"),
                      pending |-> CountWhere(results, "human_approved", "None"),
                      approval_rate |-> rate.value])

EvCall(op, r) == [op |-> op, raised |-> r.raised, ret |-> r.value]

EvalInit ==
    /\ predictions = <<>>
    /\ ground_truth = <<>>
    /\ action_results = <<>>
    /\ ev_call = EvCall("none", Returned(PyNone))
    /\ start_time = now

AddPrediction(prediction) ==
    /\ Len(predictions) < MaxPredictions
    /\ predictions' = Append(predictions, prediction)
    /\ ev_call' = EvCall("add_prediction", Returned(PyNone))
    /\ UNCHANGED <<ground_truth, action_results, start_time>>

AddGroundTruth(label) ==
    /\ Len(ground_truth) < MaxLabels
    /\ ground_truth' = Append(ground_truth, label)
    /\ ev_call' = EvCall("add_ground_truth", Returned(PyNone))
    /\ UNCHANGED <<predictions, action_results, start_time>>

AddResult(result) ==
    /\ Len(action_results) < MaxResults
    /\ action_results' = Append(action_results, ActionResultDict(result))
    /\ ev_call' = EvCall("add_result", Returned(PyNone))
    /\ UNCHANGED <<predictions, ground_truth, start_time>>

EvaluateActions ==
    /\ ev_call' = EvCall("evaluate_actions", EvaluatedActions(predictions, ground_truth))
    /\ UNCHANGED <<predictions, ground_truth, action_results, start_time>>

EvaluateSuccessRate ==
    /\ ev_call' = EvCall("evaluate_success_rate", EvaluatedSuccessRate(action_results))
    /\ UNCHANGED <<predictions, ground_truth, action_results, start_time>>

EvaluateHumanApprovalRate ==
    /\ ev_call' = EvCall("evaluate_human_approval_rate",
                         EvaluatedApprovalRate(action_results))
    /\ UNCHANGED <<predictions, ground_truth, action_results, start_time>>

\* SummarizerEvaluator.reset()
ResetSummarizerEvaluator ==
    /\ predictions' = <<>>
    /\ ground_truth' = <<>>
    /\ ev_call' = EvCall("summarizer_reset", Returned(PyNone))
    /\ UNCHANGED <<action_results, start_time>>

\* ActionEvaluator.reset()
ResetActionEvaluator ==
    /\ action_results' = <<>>
    /\ ev_call' = EvCall("action_reset", Returned(PyNone))
    /\ UNCHANGED <<predictions, ground_truth, start_time>>

\* AgentEvalMetrics.to_dict()
ToDict(m) ==
    [total_predictions |-> m.total_predictions,
     correct_predictions |-> m.correct_predictions,
     precision |-> m.precision, recall |-> m.recall, f1_score |-> m.f1_score,
     accuracy |-> m.accuracy, avg_confidence |-> m.avg_confidence]

\* The dict of an export_report as json.dumps writes it: the text, kept as
\* the dict it encodes.
JsonReport(report_dict) == [json |-> report_dict]

\* SummarizerEvaluator.export_report()
SummarizerReport(preds, gts) ==
    LET metrics_ == EvaluatedActions(preds, gts)
    IN IF metrics_.raised THEN Raised
       ELSE Returned(JsonReport([timestamp |-> IsoFormat(now),
                                 metrics |-> ToDict(metrics_.value),
                                 total_samples |-> Len(gts)]))

\* ActionEvaluator.export_report()
ActionReport(results) ==
    LET success_metrics == EvaluatedSuccessRate(results)
        approval_metrics == EvaluatedApprovalRate(results)
    IN IF success_metrics.raised \/ approval_metrics.raised THEN Raised
       ELSE Returned(JsonReport([timestamp |-> IsoFormat(now),
                                 success_metrics |-> success_metrics.value,
                                 approval_metrics |-> approval_metrics.value]))

\* OverallEvaluator.generate_evaluation_report()
GeneratedEvaluationReport(preds, gts, results) ==
    LET summarizer_metrics == EvaluatedActions(preds, gts)
        action_success == EvaluatedSuccessRate(results)
        action_approval == EvaluatedApprovalRate(results)
    IN IF summarizer_metrics.raised \/ action_success.raised \/ action_approval.raised
       THEN Raised
       ELSE Returned([timestamp |-> IsoFormat(now),
                      elapsed_time_seconds |-> now - start_time,
                      summarizer_performance |-> ToDict(summarizer_metrics.value),
                      action_performance |->
                          [success_metrics |-> action_success.value,
                           approval_metrics |-> action_approval.value]])

\* OverallEvaluator.export_report()
OverallReport(preds, gts, results) ==
    LET generated == GeneratedEvaluationReport(preds, gts, results)
    IN IF generated.raised THEN Raised ELSE Returned(JsonReport(generated.value))

ExportSummarizerReport_Drains ==
    /\ ev_call' = EvCall("summarizer_export_report",
                         SummarizerReport(predictions, ground_truth))
    /\ predictions' = <<>>
    /\ UNCHANGED <<ground_truth, action_results, start_time>>

ExportSummarizerReport ==
    /\ ev_call' = EvCall("summarizer_export_report",
                         SummarizerReport(predictions, ground_truth))
    /\ UNCHANGED <<predictions, ground_truth, action_results, start_time>>

ExportActionReport ==
    /\ ev_call' = EvCall("action_export_report", ActionReport(action_results))
    /\ UNCHANGED <<predictions, ground_truth, action_results, start_time>>

GenerateEvaluationReport ==
    /\ ev_call' = EvCall("generate_evaluation_report",
                         GeneratedEvaluationReport(predictions, ground_truth,
                                                   action_results))
    /\ UNCHANGED <<predictions, ground_truth, action_results, start_time>>

ExportOverallReport ==
    /\ ev_call' = EvCall("overall_export_report",
                         OverallReport(predictions, ground_truth, action_results))
    /\ UNCHANGED <<predictions, ground_truth, action_results, start_time>>

\* OverallEvaluator.reset()
ResetOverallEvaluator ==
    /\ predictions' = <<>>
    /\ ground_truth' = <<>>
    /\ action_results' = <<>>
    /\ start_time' = now
    /\ ev_call' = EvCall("overall_reset", Returned(PyNone))

EvalNext ==
    \/ \E prediction \in PredictionSamples : AddPrediction(prediction) /\ UNCHANGED <<pipeline_vars, memory_vars, session_vars, tracer_vars, metrics_vars, race_vars, mem_race_vars, tr_race_vars, compact_vars>>
    \/ \E label \in LabelSamples : AddGroundTruth(label) /\ UNCHANGED <<pipeline_vars, memory_vars, session_vars, tracer_vars, metrics_vars, race_vars, mem_race_vars, tr_race_vars, compact_vars>>
    \/ \E result \in ResultSamples : AddResult(result) /\ UNCHANGED <<pipeline_vars, memory_vars, session_vars, tracer_vars, metrics_vars, race_vars, mem_race_vars, tr_race_vars, compact_vars>>
    \/ EvaluateActions /\ UNCHANGED <<pipeline_vars, memory_vars, session_vars, tracer_vars, metrics_vars, race_vars, mem_race_vars, tr_race_vars, compact_vars>>
    \/ EvaluateSuccessRate /\ UNCHANGED <<pipeline_vars, memory_vars, session_vars, tracer_vars, metrics_vars, race_vars, mem_race_vars, tr_race_vars, compact_vars>>
    \/ EvaluateHumanApprovalRate /\ UNCHANGED <<pipeline_vars, memory_vars, session_vars, tracer_vars, metrics_vars, race_vars, mem_race_vars, tr_race_vars, compact_vars>>
    \/ ResetSummarizerEvaluator /\ UNCHANGED <<pipeline_vars, memory_vars, session_vars, tracer_vars, metrics_vars, race_vars, mem_race_vars, tr_race_vars, compact_vars>>
    \/ ResetActionEvaluator /\ UNCHANGED <<pipeline_vars, memory_vars, session_vars, tracer_vars, metrics_vars, race_vars, mem_race_vars, tr_race_vars, compact_vars>>
    \/ ExportSummarizerReport /\ UNCHANGED <<pipeline_vars, memory_vars, session_vars, tracer_vars, metrics_vars, race_vars, mem_race_vars, tr_race_vars, compact_vars>>
    \/ ExportActionReport /\ UNCHANGED <<pipeline_vars, memory_vars, session_vars, tracer_vars, metrics_vars, race_vars, mem_race_vars, tr_race_vars, compact_vars>>
    \/ GenerateEvaluationReport /\ UNCHANGED <<pipeline_vars, memory_vars, session_vars, tracer_vars, metrics_vars, race_vars, mem_race_vars, tr_race_vars, compact_vars>>
    \/ ExportOverallReport /\ UNCHANGED <<pipeline_vars, memory_vars, session_vars, tracer_vars, metrics_vars, race_vars, mem_race_vars, tr_race_vars, compact_vars>>
    \/ ResetOverallEvaluator /\ UNCHANGED <<pipeline_vars, memory_vars, session_vars, tracer_vars, metrics_vars, race_vars, mem_race_vars, tr_race_vars, compact_vars>>

\* --------------------------------- MetricsCollector under request threads
\* The threads of the front end that call the module's one collector.
Threads == {"w1", "w2"}

RecordMethods ==
    {"record_email_processed", "record_summary_generated", "record_action_executed"}

\* The counter each method increments first, and the counter
\* record_action_executed increments for a status ("" for none).
TotalCounter(op) ==
    CASE op = "record_email_processed" -> "total_emails_processed"
      [] op = "record_summary_generated" -> "total_summaries_generated"
      [] op = "record_action_executed" -> "total_actions_executed"

StatusCounter(status) ==
    CASE status = "success" -> "success_count"
      [] status = "failed" -> "error_count"
      [] status = "pending_approval" -> "pending_approval_count"
      [] OTHER -> ""

\* A thread outside a call: calls counts the calls it has made.
IdleThread(calls) == [pc |-> "idle", op |-> "", status |-> "", loaded |-> 0, calls |-> calls]

MetricsRaceInit ==
    /\ mt_threads = [t \in Threads |-> IdleThread(0)]
    /\ mt_returned = [op \in RecordMethods |-> 0]

\* A thread enters record_email_processed(), record_summary_generated() or
\* record_action_executed(status).
BeginRecord(t, op, status) ==
    /\ mt_threads[t].pc = "idle"
    /\ mt_threads[t].calls < MaxThreadCalls
    /\ mt_threads' = [mt_threads EXCEPT ![t] =
                        [@ EXCEPT !.pc = "load_total", !.op = op, !.status = status]]
    /\ UNCHANGED <<metrics, mt_call, mt_hist, mt_returned>>

\* self.metrics[counter] += 1 is a read of the dict item, an addition and a
\* write of the item; another thread may run between the read and the write.
LoadTotal(t) ==
    /\ mt_threads[t].pc = "load_total"
    /\ mt_threads' = [mt_threads EXCEPT ![t] =
                        [@ EXCEPT !.pc = "store_total",
                                  !.loaded = metrics[TotalCounter(mt_threads[t].op)]]]
    /\ UNCHANGED <<metrics, mt_call, mt_hist, mt_returned>>

StoreTotal(t) ==
    /\ mt_threads[t].pc = "store_total"
    /\ metrics' = [metrics EXCEPT ![TotalCounter(mt_threads[t].op)] =
                      mt_threads[t].loaded + 1]
    /\ mt_threads' = [mt_threads EXCEPT ![t].pc =
                        IF /\ mt_threads[t].op = "record_action_executed"
                           /\ StatusCounter(mt_threads[t].status) # ""
                        THEN "load_status" ELSE "return"]
    /\ UNCHANGED <<mt_call, mt_hist, mt_returned>>

LoadStatus(t) ==
    /\ mt_threads[t].pc = "load_status"
    /\ mt_threads' = [mt_threads EXCEPT ![t] =
                        [@ EXCEPT !.pc = "store_status",
                                  !.loaded = metrics[StatusCounter(mt_threads[t].status)]]]
    /\ UNCHANGED <<metrics, mt_call, mt_hist, mt_returned>>

StoreStatus(t) ==
    /\ mt_threads[t].pc = "store_status"
    /\ metrics' = [metrics EXCEPT ![StatusCounter(mt_threads[t].status)] =
                      mt_threads[t].loaded + 1]
    /\ mt_threads' = [mt_threads EXCEPT ![t].pc = "return"]
    /\ UNCHANGED <<mt_call, mt_hist, mt_returned>>

ReturnRecord(t) ==
    /\ mt_threads[t].pc = "return"
    /\ mt_threads' = [mt_threads EXCEPT ![t] = IdleThread(@.calls + 1)]
    /\ mt_returned' = [mt_returned EXCEPT ![mt_threads[t].op] = @ + 1]
    /\ mt_call' = MtCall(mt_threads[t].op, FALSE)
    /\ mt_hist' =
          CASE mt_threads[t].op = "record_action_executed" ->
                  [mt_hist EXCEPT !.by_status[mt_threads[t].status] = @ + 1]
            [] mt_threads[t].op = "record_email_processed" ->
                  [mt_hist EXCEPT !.paired = @ /\ ~mt_hist.awaiting, !.awaiting = TRUE]
            [] OTHER -> mt_hist
    /\ UNCHANGED metrics

MetricsRaceNext ==
    \/ \E t \in Threads :
         BeginRecord(t, "record_email_processed", "") /\ UNCHANGED <<pipeline_vars, memory_vars, session_vars, tracer_vars, eval_vars, mem_race_vars, tr_race_vars, compact_vars>>
    \/ \E t \in Threads :
         BeginRecord(t, "record_summary_generated", "") /\ UNCHANGED <<pipeline_vars, memory_vars, session_vars, tracer_vars, eval_vars, mem_race_vars, tr_race_vars, compact_vars>>
    \/ \E t \in Threads, status \in Statuses :
         BeginRecord(t, "record_action_executed", status) /\ UNCHANGED <<pipeline_vars, memory_vars, session_vars, tracer_vars, eval_vars, mem_race_vars, tr_race_vars, compact_vars>>
    \/ \E t \in Threads : LoadTotal(t) /\ UNCHANGED <<pipeline_vars, memory_vars, session_vars, tracer_vars, eval_vars, mem_race_vars, tr_race_vars, compact_vars>>
    \/ \E t \in Threads : StoreTotal(t) /\ UNCHANGED <<pipeline_vars, memory_vars, session_vars, tracer_vars, eval_vars, mem_race_vars, tr_race_vars, compact_vars>>
    \/ \E t \in Threads : LoadStatus(t) /\ UNCHANGED <<pipeline_vars, memory_vars, session_vars, tracer_vars, eval_vars, mem_race_vars, tr_race_vars, compact_vars>>
    \/ \E t \in Threads : StoreStatus(t) /\ UNCHANGED <<pipeline_vars, memory_vars, session_vars, tracer_vars, eval_vars, mem_race_vars, tr_race_vars, compact_vars>>
    \/ \E t \in Threads : ReturnRecord(t) /\ UNCHANGED <<pipeline_vars, memory_vars, session_vars, tracer_vars, eval_vars, mem_race_vars, tr_race_vars, compact_vars>>

\* --------------------------------------- MemoryBank under request threads
\* The calls the threads make on one key: stores of either value under a TTL
\* of one second, retrieves and deletes. mem_call and mem_hist describe calls
\* made one at a time and stay as they are here.
RaceKey == "k1"
RaceTTL == PyNum(1)

NoEntry == MemoryEntry("", PyNone, IsoFormat(0), PyNone)
IdleMemThread(calls) == [pc |-> "idle", key |-> "", entry |-> NoEntry, calls |-> calls]

MemoryRaceInit ==
    /\ mem_threads = [t \in Threads |-> IdleMemThread(0)]
    /\ mem_race = [deleted_unexpired |-> FALSE, key_error |-> FALSE]

MemReturn(t) == [mem_threads EXCEPT ![t] = IdleMemThread(@.calls + 1)]
MemEnter(t) == mem_threads[t].pc = "idle" /\ mem_threads[t].calls < MaxThreadCalls

\* store: the entry is built, with the time read then ...
StoreBuild(t, key, value, ttl_seconds) ==
    /\ MemEnter(t)
    /\ mem_threads' = [mem_threads EXCEPT ![t] =
                         [@ EXCEPT !.pc = "store_write", !.key = key,
                                   !.entry = MemoryEntry(key, value, IsoFormat(now),
                                                         ttl_seconds)]]
    /\ UNCHANGED <<memory, now, mem_call, mem_hist, mem_race>>

\* ... and self.memory[key] = entry.
StoreWrite(t) ==
    /\ mem_threads[t].pc = "store_write"
    /\ memory' = DictSet(memory, mem_threads[t].key, mem_threads[t].entry)
    /\ mem_threads' = MemReturn(t)
    /\ UNCHANGED <<now, mem_call, mem_hist, mem_race>>

\* retrieve: entry = self.memory.get(key) ...
RetrieveGet(t, key) ==
    /\ MemEnter(t)
    /\ mem_threads' =
          IF DictHas(memory, key)
          THEN [mem_threads EXCEPT ![t] =
                  [@ EXCEPT !.pc = "retrieve_check", !.key = key,
                            !.entry = DictAt(memory, key)]]
          ELSE MemReturn(t)
    /\ UNCHANGED <<memory, now, mem_call, mem_hist, mem_race>>

\* ... the TTL check on the entry read, with the time read now ...
RetrieveCheck(t) ==
    /\ mem_threads[t].pc = "retrieve_check"
    /\ mem_threads' =
          IF Expired(mem_threads[t].entry)
          THEN [mem_threads EXCEPT ![t].pc = "retrieve_del"]
          ELSE MemReturn(t)
    /\ UNCHANGED <<memory, now, mem_call, mem_hist, mem_race>>

\* ... and del self.memory[key]: KeyError when the key has gone, and
\* whatever entry is under the key now is the one removed.
RetrieveDel(t) ==
    /\ mem_threads[t].pc = "retrieve_del"
    /\ IF DictHas(memory, mem_threads[t].key)
       THEN /\ memory' = DictDel(memory, mem_threads[t].key)
            /\ mem_race' = [mem_race EXCEPT !.deleted_unexpired =
                               @ \/ ~Expired(DictAt(memory, mem_threads[t].key))]
       ELSE /\ memory' = memory
            /\ mem_race' = [mem_race EXCEPT !.key_error = TRUE]
    /\ mem_threads' = MemReturn(t)
    /\ UNCHANGED <<now, mem_call, mem_hist>>

\* delete: if key in self.memory ...
DeleteCheck(t, key) ==
    /\ MemEnter(t)
    /\ mem_threads' =
          IF DictHas(memory, key)
          THEN [mem_threads EXCEPT ![t] = [@ EXCEPT !.pc = "delete_del", !.key = key]]
          ELSE MemReturn(t)
    /\ UNCHANGED <<memory, now, mem_call, mem_hist, mem_race>>

\* ... and del self.memory[key].
DeleteDel(t) ==
    /\ mem_threads[t].pc = "delete_del"
    /\ IF DictHas(memory, mem_threads[t].key)
       THEN /\ memory' = DictDel(memory, mem_threads[t].key)
            /\ mem_race' = mem_race
       ELSE /\ memory' = memory
            /\ mem_race' = [mem_race EXCEPT !.key_error = TRUE]
    /\ mem_threads' = MemReturn(t)
    /\ UNCHANGED <<now, mem_call, mem_hist>>

MemoryRaceNext ==
    \/ \E t \in Threads, value \in Values :
         StoreBuild(t, RaceKey, value, RaceTTL) /\ UNCHANGED <<pipeline_vars, session_vars, tracer_vars, metrics_vars, eval_vars, race_vars, tr_race_vars, compact_vars>>
    \/ \E t \in Threads : StoreWrite(t) /\ UNCHANGED <<pipeline_vars, session_vars, tracer_vars, metrics_vars, eval_vars, race_vars, tr_race_vars, compact_vars>>
    \/ \E t \in Threads : RetrieveGet(t, RaceKey) /\ UNCHANGED <<pipeline_vars, session_vars, tracer_vars, metrics_vars, eval_vars, race_vars, tr_race_vars, compact_vars>>
    \/ \E t \in Threads : RetrieveCheck(t) /\ UNCHANGED <<pipeline_vars, session_vars, tracer_vars, metrics_vars, eval_vars, race_vars, tr_race_vars, compact_vars>>
    \/ \E t \in Threads : RetrieveDel(t) /\ UNCHANGED <<pipeline_vars, session_vars, tracer_vars, metrics_vars, eval_vars, race_vars, tr_race_vars, compact_vars>>
    \/ \E t \in Threads : DeleteCheck(t, RaceKey) /\ UNCHANGED <<pipeline_vars, session_vars, tracer_vars, metrics_vars, eval_vars, race_vars, tr_race_vars, compact_vars>>
    \/ \E t \in Threads : DeleteDel(t) /\ UNCHANGED <<pipeline_vars, session_vars, tracer_vars, metrics_vars, eval_vars, race_vars, tr_race_vars, compact_vars>>
    \/ Tick /\ UNCHANGED <<mem_race_vars, pipeline_vars, session_vars, tracer_vars, metrics_vars, eval_vars, race_vars, tr_race_vars, compact_vars>>

\* ------------------------------------- RequestTracer under request threads
\* The threads add spans to one trace id. tr_call and tr_hist describe calls
\* made one at a time and stay as they are here.
RaceTraceId == "t1"

IdleTraceThread(calls) == [pc |-> "idle", span |-> NoSpan, calls |-> calls]

TracerRaceInit ==
    /\ tr_threads = [t \in Threads |-> IdleTraceThread(0)]
    /\ tr_added = [span \in Spans |-> 0]

\* add_span: if trace_id not in self.traces ...
SpanCheck(t, span) ==
    /\ tr_threads[t].pc = "idle"
    /\ tr_threads[t].calls < MaxThreadCalls
    /\ tr_threads' = [tr_threads EXCEPT ![t] =
                        [@ EXCEPT !.pc = IF RaceTraceId \in DOMAIN traces
                                         THEN "append" ELSE "start",
                                  !.span = span]]
    /\ UNCHANGED <<traces, tr_call, tr_hist, tr_added>>

\* ... self.start_trace(trace_id), which sets the list to the start marker ...
SpanStart(t) ==
    /\ tr_threads[t].pc = "start"
    /\ traces' = StartedTrace(traces, RaceTraceId)
    /\ tr_threads' = [tr_threads EXCEPT ![t].pc = "append"]
    /\ UNCHANGED <<tr_call, tr_hist, tr_added>>

\* ... and self.traces[trace_id].append(entry).
SpanAppend(t) ==
    /\ tr_threads[t].pc = "append"
    /\ traces' = TracesWith(traces, RaceTraceId,
                            Append(traces[RaceTraceId], SpanEntry(tr_threads[t].span)))
    /\ tr_threads' = [tr_threads EXCEPT ![t] = IdleTraceThread(@.calls + 1)]
    /\ tr_added' = [tr_added EXCEPT ![tr_threads[t].span] = @ + 1]
    /\ UNCHANGED <<tr_call, tr_hist>>

TracerRaceNext ==
    \/ \E t \in Threads, span \in Spans : SpanCheck(t, span) /\ UNCHANGED <<pipeline_vars, memory_vars, session_vars, metrics_vars, eval_vars, race_vars, mem_race_vars, compact_vars>>
    \/ \E t \in Threads : SpanStart(t) /\ UNCHANGED <<pipeline_vars, memory_vars, session_vars, metrics_vars, eval_vars, race_vars, mem_race_vars, compact_vars>>
    \/ \E t \in Threads : SpanAppend(t) /\ UNCHANGED <<pipeline_vars, memory_vars, session_vars, metrics_vars, eval_vars, race_vars, mem_race_vars, compact_vars>>

\* ------------------------------------------------- ContextCompactor
\* The message dicts of a conversation handed to the compactor.
CompactMessages ==
    {[role |-> "user", content |-> "a"],
     [role |-> "assistant", content |-> "b"],
     [role |-> "user", content |-> "c"]}

\* seq[start:] of a Python list: a negative start counts from the end, and
\* either is clamped to the list.
SliceFrom(seq, start) ==
    LET from == IF start < 0
                THEN (IF Len(seq) + start < 0 THEN 0 ELSE Len(seq) + start)
                ELSE (IF start > Len(seq) THEN Len(seq) ELSE start)
    IN SubSeq(seq, from + 1, Len(seq))

\* ContextCompactor.compact_conversation(messages, max_messages)
CompactedConversation(messages, max_messages) ==
    IF Len(messages) <= max_messages
    THEN messages
    ELSE SliceFrom(messages, 0 - max_messages)

CompactCall(messages, max_messages, ret) ==
    [op |-> "compact_conversation", messages |-> messages,
     max_messages |-> max_messages, ret |-> ret]

CompactInit ==
    /\ compact_input = <<>>
    /\ compact_call = [op |-> "none", messages |-> <<>>, max_messages |-> 0, ret |-> <<>>]

\* The caller's conversation grows by one message.
AppendCompactInput(message) ==
    /\ Len(compact_input) < MaxCompactLen
    /\ compact_input' = Append(compact_input, message)
    /\ UNCHANGED compact_call

CompactConversation(max_messages) ==
    /\ compact_call' = CompactCall(compact_input, max_messages,
                                   CompactedConversation(compact_input, max_messages))
    /\ UNCHANGED compact_input

CompactNext ==
    \/ \E message \in CompactMessages : AppendCompactInput(message) /\ UNCHANGED <<pipeline_vars, memory_vars, session_vars, tracer_vars, metrics_vars, eval_vars, race_vars, mem_race_vars, tr_race_vars>>
    \/ \E max_messages \in 0..(MaxCompactLen + 1) : CompactConversation(max_messages) /\ UNCHANGED <<pipeline_vars, memory_vars, session_vars, tracer_vars, metrics_vars, eval_vars, race_vars, mem_race_vars, tr_race_vars>>

Init == PipelineInit /\ MemoryInit /\ SessionInit /\ TracerInit /\ MetricsInit /\ EvalInit /\ MetricsRaceInit /\ MemoryRaceInit /\ TracerRaceInit /\ CompactInit


MemorySpec == Init /\ [][MemoryNext]_vars

SessionSpec == Init /\ [][SessionNext]_vars

TracerSpec == Init /\ [][TracerNext]_vars

MetricsSpec == Init /\ [][MetricsNext]_vars

EvalSpec == Init /\ [][EvalNext]_vars

MetricsRaceSpec == Init /\ [][MetricsRaceNext]_vars

MemoryRaceSpec == Init /\ [][MemoryRaceNext]_vars

TracerRaceSpec == Init /\ [][TracerRaceNext]_vars

CompactSpec == Init /\ [][CompactNext]_vars

\* ------------------------------------------------------- process_inbox
\* A call of process_inbox(max_emails, require_approval).
CallProcessInbox ==
    /\ pc = "idle"
    /\ \E m \in 1..MaxEmails, ra \in BOOLEAN :
         /\ max_emails' = m
         /\ require_approval' = ra
    /\ pc' = "fetch"
    /\ UNCHANGED <<fetch_reply, replies, emails, summaries, actions, report,
                   summarize_calls, action_calls, archive_calls>>

\* Step 1: fetch; no emails returns the empty report at once.
FetchStep ==
    /\ pc = "fetch"
    /\ \E reply \in FetchReplies(max_emails) :
         LET fetched == FetchEmails(reply)
         IN /\ fetch_reply' = reply
            /\ IF fetched.raised
               THEN /\ pc' = "raised"
                    /\ UNCHANGED <<emails, report>>
               ELSE /\ emails' = fetched.value
                    /\ IF fetched.value = <<>>
                       THEN /\ report' = Report(0, <<>>, <<>>)
                            /\ pc' = "done"
                       ELSE /\ pc' = "summarize"
                            /\ UNCHANGED report
    /\ UNCHANGED <<max_emails, require_approval, replies, summaries, actions,
                   summarize_calls, action_calls, archive_calls>>

\* Step 2, one turn of the loop: summarize the next email.
SummarizeStep ==
    /\ pc = "summarize"
    /\ \E reply \in SummarizerReplies :
         LET summary == SummarizeAndSuggest(emails[Len(summaries) + 1], reply)
         IN /\ replies' = Append(replies, reply)
            /\ summarize_calls' = summarize_calls + 1
            /\ IF summary.raised
               THEN /\ pc' = "raised"
                    /\ UNCHANGED summaries
               ELSE /\ summaries' = Append(summaries, summary.value)
                    /\ pc' = IF Len(summaries') = Len(emails)
                             THEN "act" ELSE "summarize"
    /\ UNCHANGED <<max_emails, require_approval, fetch_reply, emails, actions,
                   report, action_calls, archive_calls>>

\* Step 3, one turn of the loop: execute the action of the next summary.
ActStep ==
    /\ pc = "act"
    /\ LET action == ExecuteAction(summaries[Len(actions) + 1], require_approval)
       IN /\ action_calls' = action_calls + 1
          /\ IF action.raised
             THEN /\ pc' = "raised"
                  /\ UNCHANGED <<actions, archive_calls>>
             ELSE /\ actions' = Append(actions, action.value)
                  /\ archive_calls' = archive_calls \o action.archived
                  /\ pc' = IF Len(actions') = Len(summaries)
                           THEN "report" ELSE "act"
    /\ UNCHANGED <<max_emails, require_approval, fetch_reply, replies, emails,
                   summaries, report, summarize_calls>>

\* The result dict, returned.
ReportStep ==
    /\ pc = "report"
    /\ report' = Report(Len(emails), summaries, actions)
    /\ pc' = "done"
    /\ UNCHANGED <<max_emails, require_approval, fetch_reply, replies, emails,
                   summaries, actions, summarize_calls, action_calls,
                   archive_calls>>

\* The call is over: the caller has the report (or the exception), the
\* locals are gone, and the next call may come.
ReturnStep ==
    /\ pc \in {"done", "raised"}
    /\ pc' = "idle"
    /\ max_emails' = 1
    /\ require_approval' = TRUE
    /\ fetch_reply' = NoFetch
    /\ replies' = <<>>
    /\ emails' = <<>>
    /\ summaries' = <<>>
    /\ actions' = <<>>
    /\ report' = Report(0, <<>>, <<>>)
    /\ summarize_calls' = 0
    /\ action_calls' = 0
    /\ archive_calls' = <<>>

PipelineNext ==
    \/ CallProcessInbox /\ UNCHANGED <<memory_vars, session_vars, tracer_vars, metrics_vars, eval_vars, race_vars, mem_race_vars, tr_race_vars, compact_vars>>
    \/ FetchStep /\ UNCHANGED <<memory_vars, session_vars, tracer_vars, metrics_vars, eval_vars, race_vars, mem_race_vars, tr_race_vars, compact_vars>>
    \/ SummarizeStep /\ UNCHANGED <<memory_vars, session_vars, tracer_vars, metrics_vars, eval_vars, race_vars, mem_race_vars, tr_race_vars, compact_vars>>
    \/ ActStep /\ UNCHANGED <<memory_vars, session_vars, tracer_vars, metrics_vars, eval_vars, race_vars, mem_race_vars, tr_race_vars, compact_vars>>
    \/ ReportStep /\ UNCHANGED <<memory_vars, session_vars, tracer_vars, metrics_vars, eval_vars, race_vars, mem_race_vars, tr_race_vars, compact_vars>>
    \/ ReturnStep /\ UNCHANGED <<memory_vars, session_vars, tracer_vars, metrics_vars, eval_vars, race_vars, mem_race_vars, tr_race_vars, compact_vars>>

PipelineSpec == Init /\ [][PipelineNext]_vars

\* ------------------------------------------------- claims on the pipeline
Range(q) == {q[i] : i \in 1..Len(q)}
FixedActions == {PyStr("reply"), PyStr("archive"), PyStr("escalate")}
ReplySpellings == {"reply", "Reply", "REPLY"}
FailedSummary(id) ==
    SummaryResult(id, PyStr("(summarization failed)"), PyStr("escalate"), 0)

\* C1: a returned report has total_emails = len(summaries) = len(actions) =
\* the number of fetched items, and the i-th summary and the i-th action carry
\* the id of the i-th fetched item.
C1_ReportAligned ==
    pc = "done" =>
        /\ report.total_emails = Len(fetch_reply.items)
        /\ Len(report.summaries) = Len(fetch_reply.items)
        /\ Len(report.actions) = Len(fetch_reply.items)
        /\ \A i \in 1..Len(fetch_reply.items) :
             LET id == IF fetch_reply.items[i].has_id
                       THEN fetch_reply.items[i].id ELSE ""
             IN /\ report.summaries[i].email_id = id
                /\ report.actions[i].email_id = id

C1_Witness ==
    /\ pc = "done"
    /\ report.total_emails = 2
    /\ report.summaries[1].email_id = "m2"
    /\ report.actions[2].email_id = "m1"
    /\ replies[2].raised
    /\ ~require_approval

\* C2: with require_approval true every ActionResult has status
\* pending_approval, whatever the suggested action, and no archive call is
\* made on the side-effect executor.
C2_ApprovalGatesEverything ==
    require_approval =>
        /\ \A i \in 1..Len(actions) : actions[i].status = "pending_approval"
        /\ archive_calls = <<>>

C2_Witness ==
    /\ pc = "done"
    /\ require_approval
    /\ Len(report.actions) = 2
    /\ report.summaries[1].suggested_action = PyStr("archive")
    /\ report.summaries[2].suggested_action = PyNum(7)
    /\ report.actions[1].status = "pending_approval"

\* C3: with require_approval false a suggested action 'reply', in any letter
\* case, gives status pending_approval.
C3_ReplyNeverAutoSent ==
    ~require_approval =>
        \A i \in 1..Len(actions) :
            (/\ summaries[i].suggested_action.type = "str"
             /\ summaries[i].suggested_action.str \in ReplySpellings)
                => actions[i].status = "pending_approval"

C3_Witness ==
    /\ pc = "done"
    /\ ~require_approval
    /\ Len(report.summaries) >= 1
    /\ report.summaries[1].suggested_action = PyStr("Reply")
    /\ report.actions[1].status = "pending_approval"

\* C4: with require_approval false a suggested action 'archive' makes the
\* action stage call the side-effect executor's archive for that item.
C4_ArchiveCallsExecutor ==
    (pc = "done" /\ ~require_approval) =>
        \A i \in 1..Len(report.summaries) :
            report.summaries[i].suggested_action = PyStr("archive")
                => report.summaries[i].email_id \in Range(archive_calls)

\* C5: a response that is no JSON, or is JSON but no object, gives the
\* summary the raw response text, the action escalate and confidence 0.5.
C5_MalformedFallsBack ==
    \A i \in 1..Len(summaries) :
        (/\ ~replies[i].raised
         /\ \/ ~JsonLoads(replies[i].text).ok
            \/ JsonLoads(replies[i].text).kind # "dict")
            => summaries[i] = SummaryResult(emails[i].id, PyStr(replies[i].text),
                                            PyStr("escalate"), 50)

\* C6: an item whose summarization call raises gets confidence 0.0, action
\* escalate and a summary that says it failed; no exception leaves
\* process_inbox; and every item of the report has the results it gets on
\* its own, whatever happened to the others.
C6_SummarizerFailureIsolated ==
    /\ pc # "raised"
    /\ \A i \in 1..Len(summaries) :
         replies[i].raised => summaries[i] = FailedSummary(emails[i].id)
    /\ pc = "done" =>
         \A i \in 1..Len(report.summaries) :
            /\ report.summaries[i] = SummarizeAndSuggest(emails[i], replies[i]).value
            /\ report.actions[i]
                 = ExecuteAction(report.summaries[i], require_approval).value

C6_Witness ==
    /\ pc = "done"
    /\ ~require_approval
    /\ Len(report.summaries) = 2
    /\ replies[1].raised
    /\ report.summaries[1].confidence = 0
    /\ replies[2].text = TextArchive
    /\ report.actions[2].status = "success"

\* C7: when the fetch collaborator fails or returns no items, the report is
\* empty with total_emails 0, and neither the summarization collaborator nor
\* the action stage is called in that pass.
C7_EmptyPassSkipsStages ==
    (pc \notin {"idle", "fetch"} /\ (fetch_reply.raised \/ fetch_reply.items = <<>>))
        => /\ pc = "done"
           /\ report = Report(0, <<>>, <<>>)
           /\ summarize_calls = 0
           /\ action_calls = 0

C7_Witness ==
    /\ pc = "done"
    /\ fetch_reply.raised
    /\ report.total_emails = 0

\* C8: every SummaryResult has a suggested action among reply, archive,
\* escalate.
C8_ActionInFixedSet ==
    \A i \in 1..Len(summaries) : summaries[i].suggested_action \in FixedActions

\* ---------------------------------------------- claims on the Memory Bank
\* The last call was retrieve(key), and key's last store has not been undone
\* by delete or clear.
RetrievedSinceStore(key) ==
    /\ mem_call.op = "retrieve"
    /\ mem_call.key = key
    /\ mem_hist[key].stored
    /\ ~mem_hist[key].removed
\* Seconds from key's last store to the last call.
ElapsedAtCall(key) == mem_call.at - mem_hist[key].at

\* C9: after store(k, v, ttl=t) with t >= 1 and no later store of k, a
\* retrieve(k) at elapsed time <= t returns v and keeps the entry; a
\* retrieve(k) at elapsed time > t returns absent and leaves no entry, and a
\* list_keys() after it does not list k.
C9_PositiveTTLExpiry ==
    \A k \in Keys :
        (/\ mem_hist[k].stored
         /\ mem_hist[k].ttl_seconds.type = "num"
         /\ mem_hist[k].ttl_seconds.num >= 1) =>
            /\ (RetrievedSinceStore(k)
                  /\ ElapsedAtCall(k) <= mem_hist[k].ttl_seconds.num)
                 => /\ mem_call.ret = mem_hist[k].value
                    /\ DictHas(memory, k)
            /\ (RetrievedSinceStore(k)
                  /\ ElapsedAtCall(k) > mem_hist[k].ttl_seconds.num)
                 => /\ mem_call.ret = PyNone
                    /\ ~DictHas(memory, k)
            /\ (mem_call.op = "list_keys" /\ mem_hist[k].read_late)
                 => k \notin Range(mem_call.keys)

C9_Witness ==
    /\ RetrievedSinceStore("k1")
    /\ mem_hist["k1"].ttl_seconds = PyNum(1)
    /\ ElapsedAtCall("k1") = 2
    /\ mem_call.ret = PyNone
    /\ DictKeys(memory) = <<"k2">>

\* C10: after store(k, v) with no TTL, retrieve(k) returns v at every later
\* time, until k is stored again, deleted, or the bank is cleared.
C10_NoTTLNeverExpires ==
    \A k \in Keys :
        (RetrievedSinceStore(k) /\ mem_hist[k].ttl_seconds = PyNone)
            => /\ mem_call.ret = mem_hist[k].value
               /\ DictHas(memory, k)
               /\ DictAt(memory, k).value = mem_hist[k].value

C10_Witness ==
    /\ RetrievedSinceStore("k1")
    /\ mem_hist["k1"].ttl_seconds = PyNone
    /\ ElapsedAtCall("k1") = MaxTime
    /\ mem_call.ret = PyStr("v2")

\* C11: the expiry rule holds for every TTL that is set, 0 included: after
\* store(k, v, ttl_seconds=0) a retrieve(k) made once the clock has moved past
\* the store time deletes the entry and returns absent.
C11_ZeroTTLExpires ==
    \A k \in Keys :
        (/\ RetrievedSinceStore(k)
         /\ mem_hist[k].ttl_seconds = PyNum(0)
         /\ ElapsedAtCall(k) > 0)
            => /\ mem_call.ret = PyNone
               /\ ~DictHas(memory, k)

\* C12: store is an upsert that resets value, timestamp and TTL: after a
\* later store(k, v2, ttl=t2) the resident entry is exactly that store's, and
\* retrieve(k) returns v2 or absent, never the older value; with t2 absent it
\* returns v2 at every time, with t2 >= 1 it returns absent exactly when more
\* than t2 seconds have passed since the second store.
C12_StoreResetsEntry ==
    \A k \in Keys :
        /\ (mem_call.op = "store" /\ mem_call.key = k)
             => /\ DictHas(memory, k)
                /\ DictAt(memory, k)
                     = MemoryEntry(k, mem_hist[k].value, IsoFormat(mem_hist[k].at),
                                   mem_hist[k].ttl_seconds)
                /\ mem_hist[k].at = mem_call.at
        /\ RetrievedSinceStore(k)
             => /\ mem_call.ret \in {mem_hist[k].value, PyNone}
                /\ mem_hist[k].ttl_seconds = PyNone
                     => mem_call.ret = mem_hist[k].value
                /\ (mem_hist[k].ttl_seconds.type = "num"
                      /\ mem_hist[k].ttl_seconds.num >= 1)
                     => (mem_call.ret = PyNone
                           <=> ElapsedAtCall(k) > mem_hist[k].ttl_seconds.num)

C12_Witness ==
    /\ RetrievedSinceStore("k1")
    /\ mem_hist["k1"].replaced
    /\ mem_hist["k1"].ttl_seconds = PyNone
    /\ mem_hist["k1"].at = 1
    /\ mem_call.at = 2
    /\ mem_call.ret = PyStr("v2")

\* ------------------------------------------- claims on the session service
\* C13: add_message and update_session on a session id that does not exist
\* do not raise, do not create the session, and leave every session as it
\* was.
C13_MissingSessionNoOp ==
    [][\A id \in SessionIds :
          id \notin DOMAIN sessions =>
             /\ \A message \in Messages :
                  AddMessage(id, message)
                     => sessions' = sessions /\ ~sess_call'.raised
             /\ \A data \in Patches :
                  UpdateSession(id, data)
                     => sessions' = sessions /\ ~sess_call'.raised]_vars

C13_Witness ==
    /\ sess_call.op = "add_message"
    /\ sess_call.id = "s1"
    /\ ~sess_call.existed
    /\ "s1" \notin DOMAIN sessions
    /\ "s2" \in DOMAIN sessions
    /\ Len(sessions["s2"]["conversation"]) = 1

\* -------------------------------------------------- claims on the tracer
\* C14: start_trace(id), then n add_span(id, ...) calls, then end_trace(id),
\* with no other call on that id between them: end_trace returns n + 2
\* entries, the start marker, the n spans in call order, the end marker.
C14_TraceInCallOrder ==
    \A id \in TraceIds :
        (tr_call.op = "end_trace" /\ tr_call.id = id /\ tr_hist[id].phase = "ended")
            => /\ Len(tr_call.ret) = Len(tr_hist[id].spans) + 2
               /\ tr_call.ret[1].tag = "START"
               /\ \A i \in 1..Len(tr_hist[id].spans) :
                    tr_call.ret[i + 1] = SpanEntry(tr_hist[id].spans[i])
               /\ tr_call.ret[Len(tr_call.ret)].tag = "END"

C14_Witness ==
    /\ tr_call.op = "end_trace"
    /\ tr_call.id = "t1"
    /\ tr_hist["t1"].phase = "ended"
    /\ Len(tr_call.ret) = 4
    /\ tr_call.ret[2].tag = "a"
    /\ tr_call.ret[3].tag = "b"
    /\ "t2" \in DOMAIN traces

\* C15: end_trace on an id that has no trace returns an empty list and
\* creates no trace (a get_trace right after it returns empty too); add_span
\* on an id that has no trace leaves exactly a start marker and that span.
C15_AbsentTrace ==
    ~tr_call.existed =>
        /\ tr_call.op = "end_trace"
             => tr_call.ret = <<>> /\ tr_call.id \notin DOMAIN traces
        /\ tr_call.op = "get_trace" => tr_call.ret = <<>>
        /\ tr_call.op = "add_span"
             => /\ tr_call.id \in DOMAIN traces
                /\ Len(traces[tr_call.id]) = 2
                /\ traces[tr_call.id][1].tag = "START"
                /\ traces[tr_call.id][2] = SpanEntry(tr_call.span)

C15_Witness ==
    /\ tr_call.op = "end_trace"
    /\ tr_call.id = "t1"
    /\ ~tr_call.existed
    /\ tr_call.ret = <<>>
    /\ DOMAIN traces = {"t2"}
    /\ Len(traces["t2"]) = 2

\* ------------------------------------------- claims on the metrics collector
ActionCalls == mt_hist.by_status["success"] + mt_hist.by_status["failed"]
               + mt_hist.by_status["pending_approval"] + mt_hist.by_status["unknown"]

Counters ==
    {"total_emails_processed", "total_summaries_generated", "total_actions_executed",
     "success_count", "error_count", "pending_approval_count"}

\* C16: since construction or the last reset, total_actions_executed is the
\* number of record_action_executed calls, success_count, error_count and
\* pending_approval_count are the numbers of calls with status 'success',
\* 'failed' and 'pending_approval'; and no counter decreases except in reset.
C16_CountersCountCalls ==
    /\ [](/\ metrics.total_actions_executed = ActionCalls
          /\ metrics.success_count = mt_hist.by_status["success"]
          /\ metrics.error_count = mt_hist.by_status["failed"]
          /\ metrics.pending_approval_count = mt_hist.by_status["pending_approval"])
    /\ [][\A c \in Counters : metrics'[c] < metrics[c] => mt_call'.op = "reset"]_vars

C16_Witness ==
    /\ mt_call.op = "record_action_executed"
    /\ mt_hist.by_status["success"] = 3
    /\ mt_hist.by_status["failed"] = 1
    /\ metrics.total_actions_executed = 4
    /\ metrics.success_count = 3
    /\ metrics.error_count = 1

\* C19: record_response_time never raises, whatever the state of the
\* collector, total_emails_processed = 0 included.
C19_ResponseTimeNeverRaises ==
    mt_call.op = "record_response_time" => ~mt_call.raised

\* C20: when every record_response_time call came right after a
\* record_email_processed call of its own, starting from a new or reset
\* collector, then after k such pairs avg_response_time_ms is
\* (s_1 + ... + s_k) / k.
C20_AverageIsMean ==
    (mt_hist.paired /\ ~mt_hist.awaiting /\ mt_hist.samples >= 1)
        => /\ metrics.total_emails_processed = mt_hist.samples
           /\ metrics.avg_response_time_ms.num * mt_hist.samples
                 = mt_hist.sum * metrics.avg_response_time_ms.den

C20_Witness ==
    /\ mt_call.op = "record_response_time"
    /\ mt_hist.paired
    /\ mt_hist.samples = 2
    /\ mt_hist.sum = 350
    /\ metrics.avg_response_time_ms = [num |-> 175, den |-> 1]

\* ------------------------------------------------ claims on the evaluators
\* The predictions whose email id has a ground-truth label; the label of an
\* id is the one added last for it.
Labelled == {i \in 1..Len(predictions) :
                \E j \in 1..Len(ground_truth) :
                    ground_truth[j].email_id = predictions[i].email_id}
LabelOf(i) ==
    LET js == {j \in 1..Len(ground_truth) :
                  ground_truth[j].email_id = predictions[i].email_id}
    IN ground_truth[CHOOSE j \in js : \A k \in js : k <= j].true_action
Agreeing == {i \in Labelled : StrLower(predictions[i].action) = StrLower(LabelOf(i))}
RECURSIVE ConfidenceSum(_)
ConfidenceSum(S) ==
    IF S = {} THEN 0
    ELSE LET i == CHOOSE x \in S : TRUE
         IN predictions[i].confidence + ConfidenceSum(S \ {i})

\* C17: accuracy is the number of predictions that have a ground-truth label
\* and agree with it ignoring case, over the number of all predictions;
\* average confidence is the sum of the confidences of the predictions that
\* have a label, over the number of all predictions.
C17_AccuracyOverAllPredictions ==
    (ev_call.op = "evaluate_actions" /\ Len(predictions) >= 1)
        => /\ ~ev_call.raised
           /\ ev_call.ret.accuracy.num * Len(predictions)
                 = Cardinality(Agreeing) * ev_call.ret.accuracy.den
           /\ ev_call.ret.avg_confidence.num * Len(predictions)
                 = ConfidenceSum(Labelled) * ev_call.ret.avg_confidence.den

C17_Witness ==
    /\ ev_call.op = "evaluate_actions"
    /\ Len(predictions) = 2
    /\ predictions[1].action = "Archive"
    /\ predictions[2].email_id = "2"
    /\ Len(ground_truth) = 1
    /\ ground_truth[1] = [email_id |-> "1", true_action |-> "archive"]
    /\ ev_call.ret.accuracy = [num |-> 1, den |-> 2]
    /\ ev_call.ret.avg_confidence = [num |-> 45, den |-> 1]

\* C18: with no samples recorded, summarizer accuracy and average confidence,
\* action success rate and human approval rate are all 0.0, and no
\* computation raises.
C18_NoSamplesGiveZero ==
    /\ (ev_call.op = "evaluate_actions" /\ predictions = <<>>)
          => /\ ~ev_call.raised
             /\ ev_call.ret.accuracy = FloatZero
             /\ ev_call.ret.avg_confidence = FloatZero
    /\ (ev_call.op = "evaluate_success_rate" /\ action_results = <<>>)
          => ~ev_call.raised /\ ev_call.ret.success_rate = FloatZero
    /\ (ev_call.op = "evaluate_human_approval_rate" /\ action_results = <<>>)
          => ~ev_call.raised /\ ev_call.ret.approval_rate = FloatZero

C18_Witness ==
    /\ ev_call.op = "evaluate_human_approval_rate"
    /\ action_results = <<>>
    /\ ~ev_call.raised
    /\ ev_call.ret.approval_rate = FloatZero
    /\ ev_call.ret.total = 0
    /\ Len(ground_truth) = 1

\* ------------------------------------- claims on the concurrent callers
\* C21: when record_* calls run concurrently on several request threads, once
\* they have all returned each counter has grown by exactly the number of
\* calls that increment it: no increment is lost.
C21_NoLostIncrement ==
    (\A t \in Threads : mt_threads[t].pc = "idle")
        => /\ metrics.total_emails_processed = mt_returned["record_email_processed"]
           /\ metrics.total_summaries_generated = mt_returned["record_summary_generated"]
           /\ metrics.total_actions_executed = mt_returned["record_action_executed"]
           /\ metrics.success_count = mt_hist.by_status["success"]
           /\ metrics.error_count = mt_hist.by_status["failed"]
           /\ metrics.pending_approval_count = mt_hist.by_status["pending_approval"]

\* C22: retrieve is atomic against a concurrent store or delete of its key:
\* a retrieve that found an expired entry never removes an entry that has not
\* expired (one a concurrent store has just written), and concurrent
\* retrieve and delete calls on one key never raise.
C22_RetrieveAtomic ==
    ~mem_race.deleted_unexpired /\ ~mem_race.key_error

\* C23: when add_span calls on one trace id run concurrently, the trace not
\* yet existing included, then once they have all returned every span they
\* added is in the trace, and the trace has exactly one start marker, as its
\* first entry.
EntriesEqual(trace, entry) == {i \in 1..Len(trace) : trace[i] = entry}
EntriesTagged(trace, tag) == {i \in 1..Len(trace) : trace[i].tag = tag}

C23_AddSpanAtomic ==
    (/\ \A t \in Threads : tr_threads[t].pc = "idle"
     /\ \E span \in Spans : tr_added[span] >= 1)
        => /\ RaceTraceId \in DOMAIN traces
           /\ \A span \in Spans :
                Cardinality(EntriesEqual(traces[RaceTraceId], SpanEntry(span)))
                    = tr_added[span]
           /\ EntriesTagged(traces[RaceTraceId], "START") = {1}

\* ------------------------------------------ claims on the session service
IsPrefix(p, q) == Len(p) <= Len(q) /\ SubSeq(q, 1, Len(p)) = p

\* C24: a session's conversation is append-only: no call other than
\* delete_session removes, replaces or reorders its messages; each call
\* leaves the conversation of a session that stays as a prefix of the new one.
C24_ConversationAppendOnly ==
    [][\A id \in DOMAIN sessions \cap DOMAIN sessions' :
          IsPrefix(sessions[id]["conversation"], sessions'[id]["conversation"])]_vars

\* C25: create_session on an id that exists changes nothing of that session;
\* on an absent id it creates a session with an empty conversation, empty
\* metadata and both timestamps at the current time, and touches no other.
C25_CreateSessionIdempotent ==
    [][\A id \in SessionIds :
          (sess_call'.op = "create_session" /\ CreateSession(id)) =>
             IF id \in DOMAIN sessions
             THEN sessions' = sessions
             ELSE /\ DOMAIN sessions' = DOMAIN sessions \cup {id}
                  /\ \A other \in DOMAIN sessions : sessions'[other] = sessions[other]
                  /\ DOMAIN sessions'[id]
                        = {"created_at", "last_activity", "conversation", "metadata"}
                  /\ sessions'[id]["conversation"] = <<>>
                  /\ sessions'[id]["metadata"] = {}
                  /\ sessions'[id]["created_at"] = IsoFormat(now)
                  /\ sessions'[id]["last_activity"] = IsoFormat(now)]_vars

C25_Witness ==
    /\ sess_call.op = "create_session"
    /\ sess_call.id = "s1"
    /\ sess_call.existed
    /\ "s1" \in DOMAIN sessions
    /\ Len(sessions["s1"]["conversation"]) = 2
    /\ sessions["s1"]["created_at"] = IsoFormat(0)
    /\ now = 1

\* C26: on an existing session add_message appends the message and leaves
\* last_activity, created_at and metadata as they were; update_session merges
\* the patch and sets last_activity to the current time, also when the patch
\* has a last_activity of its own. (The call is the one sess_call' names.)
C26_LastActivityFrame ==
    [][LET id == sess_call'.id
       IN id \in DOMAIN sessions =>
          /\ sess_call'.op = "add_message" =>
               \A message \in Messages :
                  AddMessage(id, message) =>
                     /\ sessions'[id]["conversation"]
                           = Append(sessions[id]["conversation"], message)
                     /\ \A k \in DOMAIN sessions[id] \ {"conversation"} :
                           sessions'[id][k] = sessions[id][k]
                     /\ DOMAIN sessions'[id] = DOMAIN sessions[id]
          /\ sess_call'.op = "update_session" =>
               \A data \in Patches :
                  UpdateSession(id, data) =>
                     /\ sessions'[id]["last_activity"] = IsoFormat(now)
                     /\ \A k \in DOMAIN data \ {"last_activity"} :
                           sessions'[id][k] = data[k]
                     /\ \A k \in DOMAIN sessions[id] \ (DOMAIN data \cup {"last_activity"}) :
                           sessions'[id][k] = sessions[id][k]
                     /\ DOMAIN sessions'[id] = DOMAIN sessions[id] \cup DOMAIN data]_vars

C26_Witness ==
    /\ sess_call.op = "update_session"
    /\ sess_call.id = "s1"
    /\ sess_call.existed
    /\ now = 1
    /\ sessions["s1"]["last_activity"] = IsoFormat(1)
    /\ sessions["s1"]["created_at"] = IsoFormat(0)
    /\ "topic" \notin DOMAIN sessions["s1"]
    /\ Len(sessions["s1"]["conversation"]) = 1

\* ------------------------------------------ claims on the lazy expiry
KeySet(d) == {d[i].key : i \in 1..Len(d)}
\* The TTL of key's last store has run out at time t.
PastTTL(key, t) ==
    /\ mem_hist[key].ttl_seconds.type = "num"
    /\ t - mem_hist[key].at > mem_hist[key].ttl_seconds.num

\* C27: expiry is lazy and per key. list_keys lists every key stored and not
\* since deleted, cleared or retrieved after its expiry, keys whose TTL has
\* run out included; a key leaves the bank only in a retrieve of that key
\* after its expiry, a delete of that key, or a clear; retrieve(k) and
\* delete(k) leave every other entry as it was; delete of an absent key
\* changes nothing.
C27_LazyExpiryPerKey ==
    /\ [](mem_call.op = "list_keys" =>
            \A k \in Keys :
                (mem_hist[k].stored /\ ~mem_hist[k].removed /\ ~mem_hist[k].read_late)
                    => k \in Range(mem_call.keys))
    /\ [][/\ \A k \in KeySet(memory) \ KeySet(memory') :
                \/ mem_call'.op = "clear"
                \/ mem_call'.op = "delete" /\ mem_call'.key = k
                \/ /\ mem_call'.op = "retrieve"
                   /\ mem_call'.key = k
                   /\ mem_call'.ret = PyNone
                   /\ PastTTL(k, now)
          /\ mem_call'.op \in {"retrieve", "delete"} =>
                /\ KeySet(memory') \subseteq KeySet(memory)
                /\ \A k \in KeySet(memory) \ {mem_call'.key} :
                      DictHas(memory', k) /\ DictAt(memory', k) = DictAt(memory, k)
          /\ (mem_call'.op = "delete" /\ mem_call'.key \notin KeySet(memory)) =>
                memory' = memory]_vars

C27_Witness ==
    /\ mem_call.op = "list_keys"
    /\ mem_call.keys = <<"k2", "k1">>
    /\ mem_hist["k1"].stored
    /\ ~mem_hist["k1"].removed
    /\ ~mem_hist["k1"].read_late
    /\ mem_hist["k1"].ttl_seconds = PyNum(1)
    /\ PastTTL("k1", mem_call.at)

\* ------------------------------------ claims on restarted and ended traces
\* C28: start_trace on an id that already has spans, ended or not, leaves
\* that trace as exactly one new start marker and every other trace as it was.
C28_RestartDiscards ==
    [][tr_call'.op = "start_trace" =>
          LET id == tr_call'.id
          IN StartTrace(id) =>
                /\ traces'[id] = <<TraceEntry("START", IsoFormat(now), "")>>
                /\ DOMAIN traces' = DOMAIN traces \cup {id}
                /\ \A other \in DOMAIN traces \ {id} : traces'[other] = traces[other]]_vars

C28_Witness ==
    /\ tr_call.op = "start_trace"
    /\ tr_call.id = "t1"
    /\ tr_call.had = 4
    /\ Len(traces["t1"]) = 1
    /\ traces["t1"][1].tag = "START"
    /\ "t2" \in DOMAIN traces
    /\ Len(traces["t2"]) = 3

\* C29: once end_trace(id) has run, the trace holds exactly one end marker
\* and it is the last entry, whatever add_span(id, ...) and end_trace(id)
\* calls follow, until start_trace(id) or clear_traces.
C29_EndMarkerStaysLast ==
    \A id \in DOMAIN traces :
        \A i \in 1..Len(traces[id]) :
            traces[id][i].tag = "END" => i = Len(traces[id])

\* ---------------------------------------- claims on the reported action
\* C30: every ActionResult reports the action in lower case, with and
\* without require_approval, for a suggested action given in any letter case.
C30_ActionReportedLowerCase ==
    \A i \in 1..Len(actions) :
        summaries[i].suggested_action.type = "str"
            => actions[i].action = PyStr(StrLower(summaries[i].suggested_action.str))

\* ---------------------------------------- claims on the evaluator reads
EvaluatorReads ==
    {"evaluate_actions", "evaluate_success_rate", "evaluate_human_approval_rate",
     "generate_evaluation_report", "summarizer_export_report",
     "action_export_report", "overall_export_report"}

\* C31: the evaluator reads (the evaluate_* methods, generate_evaluation_report
\* and every export_report) leave predictions, labels and action results as
\* they were, so a read repeated with no mutation between gives the same
\* result; samples are only ever appended, except by a reset, and
\* OverallEvaluator.reset clears the summarizer and the action samples.
C31_EvaluatorReadsArePure ==
    [][/\ ev_call'.op \in EvaluatorReads =>
             /\ predictions' = predictions
             /\ ground_truth' = ground_truth
             /\ action_results' = action_results
             /\ ev_call.op = ev_call'.op => ev_call'.ret = ev_call.ret
       /\ ev_call'.op \notin {"summarizer_reset", "overall_reset"} =>
             IsPrefix(predictions, predictions') /\ IsPrefix(ground_truth, ground_truth')
       /\ ev_call'.op \notin {"action_reset", "overall_reset"} =>
             IsPrefix(action_results, action_results')
       /\ ev_call'.op = "overall_reset" =>
             predictions' = <<>> /\ ground_truth' = <<>> /\ action_results' = <<>>]_vars

C31_Witness ==
    /\ ev_call.op = "summarizer_export_report"
    /\ ~ev_call.raised
    /\ ev_call.ret.json.metrics.total_predictions = 2
    /\ ev_call.ret.json.total_samples = 1
    /\ Len(predictions) = 2
    /\ Len(ground_truth) = 1
    /\ Len(action_results) = 2

\* ------------------------------------ claims on the context compactor
LastMessages(messages, n) ==
    SubSeq(messages, Len(messages) - n + 1, Len(messages))

\* C32: for every message list and every max_messages >= 0, zero included,
\* compact_conversation returns at most max_messages messages, and they are
\* the last min(len(messages), max_messages) messages in their order.
C32_KeepsMostRecent ==
    compact_call.op = "compact_conversation" =>
        LET kept == IF Len(compact_call.messages) < compact_call.max_messages
                    THEN Len(compact_call.messages)
                    ELSE compact_call.max_messages
        IN /\ Len(compact_call.ret) <= compact_call.max_messages
           /\ compact_call.ret = LastMessages(compact_call.messages, kept)

=============================================================================
